---- MODULE Spec2Model ----
(***************************************************************************)
(* Model of the HWPX codec of pdf2hwpx: the direct-XML Editor and Searcher *)
(* (hwpx_ir/components/query), the IR package writer (hwpx_ir/writer.py    *)
(* with its component writers) and the IR package reader                   *)
(* (hwpx_ir/reader.py with its component readers).                         *)
(*                                                                         *)
(* XML elements are records, text is a sequence of one-character strings,  *)
(* serialized bytes (raw_xml) are a record of the element and the tail     *)
(* text that lxml's tostring() appends to it.                              *)
(***************************************************************************)
EXTENDS Integers, Sequences, FiniteSets, TLC

VARIABLES
    \* HwpxEditor
    root,          \* self.root: the top-level hp:p children of the body
    modified,      \* self._modified
    last,          \* the last call made on the editor: operation, arguments, outcome, body before
    nops,          \* number of calls made on the editor
    serialized,    \* <<what the last to_bytes() returned>>, <<>> before the first
    \* HwpxSearcher
    s_root,        \* self.root: the body the searcher was constructed on
    s_paragraphs,  \* self._paragraphs: every hp:p of the body in document order
    s_page_breaks, \* self._page_breaks
    s_pc,          \* "new" before the constructor ran, "parsed" after; "none" without searcher
    s_last,        \* the last query and its result
    \* HwpxIrWriter.write / _build_section0
    doc,           \* the IrDocument handed to write: its blocks
    context,       \* HwpxIdContext
    eq_counter,    \* InlineEquationBuilder._eq_counter
    body,          \* the children of the hs:sec root of the written section0.xml
    w_pc,          \* "idle" before write, "done" after it returned, "raised" after it raised; "none" without writer
    \* HwpxIrReader.read_ir
    section,       \* pkg.section_xml_list: per section, the children of its root, each with its tail text
    bin_data,      \* pkg.binary_items: the ids of the binary items of the package read
    r_pc,          \* "unread", "read", "raised", "none" when no package is involved
    \* HwpxIrReader.read_package
    hwpx,          \* the entries of the archive at hwpx_path, in the order of namelist()
    hwpx_package,  \* <<the HwpxPackage read_package returned>>, <<>> when it returned none
    \* HwpxIrWriter.write on the zip container
    template,      \* the entries of the template archive, in the order of infolist()
    binary_items,  \* the binary_items handed to write: id -> file name
    package,       \* the entries of the archive write returned, None when it returned none
    nwrites,       \* number of write calls made on the writer object
    \* StyleManager
    header_xml,    \* the header.xml the manager was constructed on
    style_manager, \* self.style_manager: the StyleManager, None without one
    char_pr_ids,   \* the get_char_pr_id calls of the write so far, with their outcome
    header_out     \* what get_updated_header_xml returned, None before it is called

vars == <<root, modified, last, nops, serialized,
          s_root, s_paragraphs, s_page_breaks, s_pc, s_last,
          doc, context, eq_counter, body, w_pc,
          section, bin_data, r_pc, hwpx, hwpx_package,
          template, binary_items, package, nwrites,
          header_xml, style_manager, char_pr_ids, header_out>>

editorVars   == <<root, modified, last, nops, serialized>>
searcherVars == <<s_root, s_paragraphs, s_page_breaks, s_pc, s_last>>
writerVars   == <<doc, context, eq_counter, body, w_pc>>
readerVars   == <<section, bin_data, r_pc, hwpx, hwpx_package>>
packageVars  == <<template, binary_items, package, nwrites>>
styleVars    == <<header_xml, style_manager, char_pr_ids, header_out>>

----------------------------------------------------------------------------
(* Bounds *)

\* calls made on one editor instance
MaxOps == 2
\* top-level paragraphs of a body the editor is loaded with
MaxInitParas == 1
\* paragraphs of a body the searcher is loaded with
MaxBodyLen == 3
\* top-level blocks of an IrDocument
MaxBlocks == 2
\* top-level elements of a source body section
MaxSectionLen == 3
\* text runs one write asks a style ID for
MaxRuns == 3

\* the number of write calls made on one writer
MaxWrites == 2
\* number of BinData entries of an archive read
MaxBinData == 2
\* tables of a source section
MaxTables == 2

\* the width and the height of a cell that has none
DefaultCellWidth == 10000

DefaultCellHeight == 1000

----------------------------------------------------------------------------
(* Sequences and Python str *)

Min(a, b) == IF a < b THEN a ELSE b

Max(a, b) == IF a > b THEN a ELSE b

RECURSIVE Sum(_)
\* sum(list)
Sum(s) == IF s = <<>> THEN 0 ELSE Head(s) + Sum(Tail(s))

\* list.insert(i, x) with 0-based i in 0..len
InsertAt(s, i, x) == SubSeq(s, 1, i) \o <<x>> \o SubSeq(s, i + 1, Len(s))

\* list without its 0-based element i
RemoveAt(s, i) == SubSeq(s, 1, i) \o SubSeq(s, i + 2, Len(s))

RECURSIVE Concat(_)
\* concatenation of a sequence of sequences
Concat(ss) == IF ss = <<>> THEN <<>> ELSE Head(ss) \o Concat(Tail(ss))

\* s[i:] starts with sub (1-based i)
MatchAt(s, sub, i) ==
    /\ i + Len(sub) - 1 <= Len(s)
    /\ SubSeq(s, i, i + Len(sub) - 1) = sub

RECURSIVE Find(_, _, _)
\* 1-based position of the first occurrence of sub in s at or after i, 0 if none
Find(s, sub, i) ==
    IF i + Len(sub) - 1 > Len(s) THEN 0
    ELSE IF MatchAt(s, sub, i) THEN i
    ELSE Find(s, sub, i + 1)

\* sub in s
Contains(s, sub) == Find(s, sub, 1) # 0

RECURSIVE CountFrom(_, _, _)
CountFrom(s, sub, i) ==
    LET p == Find(s, sub, i)
    IN IF p = 0 THEN 0 ELSE 1 + CountFrom(s, sub, p + Len(sub))

\* str.count(sub): non-overlapping occurrences; len+1 for the empty sub
StrCount(s, sub) == IF sub = <<>> THEN Len(s) + 1 ELSE CountFrom(s, sub, 1)

RECURSIVE ReplaceFrom(_, _, _, _, _)
ReplaceFrom(s, old, new, k, i) ==
    LET p == Find(s, old, i)
    IN IF k = 0 \/ p = 0 THEN SubSeq(s, i, Len(s))
       ELSE SubSeq(s, i, p - 1) \o new
            \o ReplaceFrom(s, old, new, IF k < 0 THEN k ELSE k - 1, p + Len(old))

\* str.replace(old, new, k) for a non-empty old; a negative k replaces all
StrReplace(s, old, new, k) == ReplaceFrom(s, old, new, k, 1)

RECURSIVE SplitFrom(_, _, _)
SplitFrom(s, i, acc) ==
    IF i > Len(s) THEN <<acc>>
    ELSE IF s[i] = "\n" THEN <<acc>> \o SplitFrom(s, i + 1, <<>>)
    ELSE SplitFrom(s, i + 1, Append(acc, s[i]))

\* text.split("\n")
SplitLines(s) == SplitFrom(s, 1, <<>>)

\* the non-empty members of a sequence of texts
RECURSIVE NonEmpty(_)
NonEmpty(ss) ==
    IF ss = <<>> THEN <<>>
    ELSE (IF Head(ss) = <<>> THEN <<>> ELSE <<Head(ss)>>) \o NonEmpty(Tail(ss))

----------------------------------------------------------------------------
(* HwpxEditor: the body as the editor sees it *)

\* 42520 // cols: the total width a table gets when no column widths are given
DefaultTableWidth == 42520

\* An hp:p element.  t holds the text of its hp:t nodes in document order,
\* lb counts its hp:lineBreak elements, ctrl names the object its run holds
\* ("none", "tbl", "pic"), tbl holds <<rowCnt, colCnt, width>> of that table
\* and sub the paragraphs nested in the table's cells.
Para(paraPr, charPr, pb, cb, t, lb, ctrl, tbl, sub) ==
    [paraPrIDRef |-> paraPr, charPrIDRef |-> charPr,
     pageBreak |-> pb, columnBreak |-> cb,
     t |-> t, lb |-> lb, ctrl |-> ctrl, tbl |-> tbl, sub |-> sub]

\* self._get_paragraphs(): the top-level paragraphs
GetParagraphs(r) == r

\* the outcome of a call: the body after it, the value returned, the
\* exception raised ("none" when the call returned) and whether the call
\* set self._modified
Returned(r, ret, mod) == [root |-> r, ret |-> ret, exc |-> "none", mod |-> mod, actual |-> 0]

Raised(r, e) == [root |-> r, ret |-> "none", exc |-> e, mod |-> FALSE, actual |-> 0]

\* _create_paragraph(text, para_pr_id, char_pr_id)
CreateParagraph(text, para_pr_id, char_pr_id) ==
    LET lines == SplitLines(text)
    IN Para(para_pr_id, char_pr_id, "0", "0", NonEmpty(lines), Len(lines) - 1,
            "none", <<>>, <<>>)

\* _create_table_cell: the paragraph of a cell (data is None: no hp:t)
CreateTableCell == Para(0, 0, "0", "0", <<>>, 0, "none", <<>>, <<>>)

\* ZeroDivisionError or IndexError of _create_table_paragraph, "none" otherwise
CreateTableParagraphExc(rows, cols, col_widths) ==
    IF col_widths = <<>> /\ cols = 0 THEN "ZeroDivisionError"
    ELSE IF col_widths # <<>> /\ rows > 0 /\ cols > Len(col_widths) THEN "IndexError"
    ELSE "none"

\* _create_table_paragraph(rows, cols, None, col_widths, border_fill_id), when it returns
CreateTableParagraph(rows, cols, col_widths) ==
    LET widths == IF col_widths = <<>>
                  THEN [i \in 1..cols |-> DefaultTableWidth \div cols]
                  ELSE col_widths
    IN Para(0, 0, "0", "0", <<>>, 0, "tbl", <<rows, cols, Sum(widths)>>,
            [i \in 1..(rows * cols) |-> CreateTableCell])

\* _create_image_paragraph(binary_item_id, width, height)
CreateImageParagraph == Para(0, 0, "0", "0", <<>>, 0, "pic", <<>>, <<>>)

\* index < 0 or index >= len(paragraphs)
OutOfRange(r, index) == index < 0 \/ index >= Len(GetParagraphs(r))

InsertParagraphAfter(r, after_index, text) ==
    IF OutOfRange(r, after_index) THEN Returned(r, FALSE, FALSE)
    ELSE Returned(InsertAt(r, after_index + 1, CreateParagraph(text, 0, 0)), TRUE, TRUE)

InsertParagraphBefore(r, before_index, text) ==
    IF OutOfRange(r, before_index) THEN Returned(r, FALSE, FALSE)
    ELSE Returned(InsertAt(r, before_index, CreateParagraph(text, 0, 0)), TRUE, TRUE)

AppendParagraph(r, text) == Returned(Append(r, CreateParagraph(text, 0, 0)), TRUE, TRUE)

\* a variant of delete_paragraph without the index < 0 test: a negative
\* index then addresses the body from its end, as paragraphs[index] does
DeleteParagraphNoLowerTest(r, index) ==
    IF index >= Len(r) \/ (index < 0 /\ Len(r) + index < 0) THEN Returned(r, FALSE, FALSE)
    ELSE Returned(RemoveAt(r, IF index < 0 THEN Len(r) + index ELSE index), TRUE, TRUE)

DeleteParagraph(r, index) ==
    IF OutOfRange(r, index) THEN Returned(r, FALSE, FALSE)
    ELSE Returned(RemoveAt(r, index), TRUE, TRUE)

\* the 0-based indices range(min(end, len) - 1, max(0, start) - 1, -1) visits
RangeIndices(r, start, end) ==
    {i \in 0..(Len(r) - 1) : Max(0, start) <= i /\ i <= Min(end, Len(r)) - 1}

RECURSIVE Keep(_, _, _)
\* the members of s whose 0-based index (counted from i) is not in drop
Keep(s, drop, i) ==
    IF s = <<>> THEN <<>>
    ELSE (IF i \in drop THEN <<>> ELSE <<Head(s)>>) \o Keep(Tail(s), drop, i + 1)

\* the variant of delete_paragraphs_range whose range includes end
DeleteParagraphsRangeInclusive(r, start, end) ==
    LET drop == {i \in 0..(Len(r) - 1) : Max(0, start) <= i /\ i <= end}
    IN Returned(Keep(r, drop, 0), Cardinality(drop), drop # {})

DeleteParagraphsRange(r, start, end) ==
    LET deleted == Cardinality(RangeIndices(r, start, end))
    IN Returned(Keep(r, RangeIndices(r, start, end), 0), deleted, deleted > 0)

\* the hp:t nodes under one paragraph, in document order
ParaT(p) == p.t \o Concat([i \in 1..Len(p.sub) |-> p.sub[i].t])

\* self.root.xpath(".//hp:t"): the text of every hp:t node in document order
AllT(r) == Concat([i \in 1..Len(r) |-> ParaT(r[i])])

\* the paragraph p with the texts of its hp:t nodes replaced by ts
RECURSIVE PutSub(_, _)
PutSub(sub, ts) ==
    IF sub = <<>> THEN <<>>
    ELSE LET n == Len(Head(sub).t)
         IN <<[Head(sub) EXCEPT !.t = SubSeq(ts, 1, n)]>>
            \o PutSub(Tail(sub), SubSeq(ts, n + 1, Len(ts)))

PutParaT(p, ts) ==
    [p EXCEPT !.t = SubSeq(ts, 1, Len(p.t)),
              !.sub = PutSub(p.sub, SubSeq(ts, Len(p.t) + 1, Len(ts)))]

RECURSIVE PutT(_, _)
\* the body r with the texts of its hp:t nodes replaced by ts
PutT(r, ts) ==
    IF r = <<>> THEN <<>>
    ELSE LET n == Len(ParaT(Head(r)))
         IN <<PutParaT(Head(r), SubSeq(ts, 1, n))>>
            \o PutT(Tail(r), SubSeq(ts, n + 1, Len(ts)))

RECURSIVE ReplaceLoop(_, _, _, _, _, _)
\* the for loop of replace_text over the hp:t nodes ts.  replaced is the
\* code's counter; actual counts the occurrences str.replace did replace.
ReplaceLoop(ts, old, new, count, replaced, actual) ==
    IF ts = <<>> THEN [ts |-> <<>>, replaced |-> replaced, actual |-> actual]
    ELSE
      LET text == Head(ts)
      IN IF text # <<>> /\ Contains(text, old)
         THEN
           LET remaining == count - replaced
               doit  == count = -1 \/ remaining > 0
               k     == IF count = -1 THEN -1 ELSE remaining
               ntext == IF doit THEN StrReplace(text, old, new, k) ELSE text
               nrep  == IF count = -1 THEN replaced + StrCount(ntext, new)
                        ELSE IF remaining > 0
                             THEN replaced + Min(remaining, StrCount(ntext, new))
                             ELSE replaced
               nact  == IF ~doit THEN actual
                        ELSE IF k < 0 THEN actual + StrCount(text, old)
                        ELSE actual + Min(k, StrCount(text, old))
           IN IF count # -1 /\ nrep >= count
              THEN [ts |-> <<ntext>> \o Tail(ts), replaced |-> nrep, actual |-> nact]
              ELSE LET rest == ReplaceLoop(Tail(ts), old, new, count, nrep, nact)
                   IN [rest EXCEPT !.ts = <<ntext>> \o rest.ts]
         ELSE LET rest == ReplaceLoop(Tail(ts), old, new, count, replaced, actual)
              IN [rest EXCEPT !.ts = <<text>> \o rest.ts]

ReplaceText(r, old_text, new_text, count) ==
    LET res == ReplaceLoop(AllT(r), old_text, new_text, count, 0, 0)
    IN [root |-> PutT(r, res.ts), ret |-> res.replaced, exc |-> "none",
        mod |-> res.replaced > 0, actual |-> res.actual]

SetParagraphText(r, index, text) ==
    IF OutOfRange(r, index) THEN Returned(r, FALSE, FALSE)
    ELSE LET lines == SplitLines(text)
         IN Returned([r EXCEPT ![index + 1] =
                        [@ EXCEPT !.charPrIDRef = 0, !.t = NonEmpty(lines),
                                  !.lb = Len(lines) - 1, !.ctrl = "none",
                                  !.tbl = <<>>, !.sub = <<>>]],
                     TRUE, TRUE)

CopyParagraph(r, from_index, to_index) ==
    IF OutOfRange(r, from_index) THEN Returned(r, FALSE, FALSE)
    ELSE IF to_index < 0 \/ to_index > Len(r) THEN Returned(r, FALSE, FALSE)
    ELSE IF to_index >= Len(r) THEN Returned(Append(r, r[from_index + 1]), TRUE, TRUE)
    ELSE Returned(InsertAt(r, to_index, r[from_index + 1]), TRUE, TRUE)

\* the variant of move_paragraph that looks the target up before it
\* removes the source
MoveParagraphStaleTarget(r, from_index, to_index) ==
    IF OutOfRange(r, from_index) THEN Returned(r, FALSE, FALSE)
    ELSE IF to_index < 0 \/ to_index > Len(r) THEN Returned(r, FALSE, FALSE)
    ELSE IF from_index = to_index THEN Returned(r, TRUE, FALSE)
    ELSE IF to_index >= Len(r) THEN Returned(Append(RemoveAt(r, from_index), r[from_index + 1]),
                                              TRUE, TRUE)
    ELSE Returned(InsertAt(RemoveAt(r, from_index),
                           IF to_index > from_index THEN to_index - 1 ELSE to_index,
                           r[from_index + 1]),
                  TRUE, TRUE)

\* the variant of move_paragraph that sets self._modified before it
\* compares the two indices
MoveParagraphAlwaysModified(r, from_index, to_index) ==
    IF OutOfRange(r, from_index) THEN Returned(r, FALSE, FALSE)
    ELSE IF to_index < 0 \/ to_index > Len(r) THEN Returned(r, FALSE, FALSE)
    ELSE IF from_index = to_index THEN Returned(r, TRUE, TRUE)
    ELSE IF to_index >= Len(r) - 1
    THEN Returned(Append(RemoveAt(r, from_index), r[from_index + 1]), TRUE, TRUE)
    ELSE Returned(InsertAt(RemoveAt(r, from_index), to_index, r[from_index + 1]), TRUE, TRUE)

MoveParagraph(r, from_index, to_index) ==
    IF OutOfRange(r, from_index) THEN Returned(r, FALSE, FALSE)
    ELSE IF to_index < 0 \/ to_index > Len(r) THEN Returned(r, FALSE, FALSE)
    ELSE IF from_index = to_index THEN Returned(r, TRUE, FALSE)
    ELSE LET source == r[from_index + 1]
             rest   == RemoveAt(r, from_index)
         IN IF to_index >= Len(rest) THEN Returned(Append(rest, source), TRUE, TRUE)
            ELSE Returned(InsertAt(rest, to_index, source), TRUE, TRUE)

SetPageBreak(r, index, enable) ==
    IF OutOfRange(r, index) THEN Returned(r, FALSE, FALSE)
    ELSE Returned([r EXCEPT ![index + 1].pageBreak = IF enable THEN "1" ELSE "0"],
                  TRUE, TRUE)

SetColumnBreak(r, index, enable) ==
    IF OutOfRange(r, index) THEN Returned(r, FALSE, FALSE)
    ELSE Returned([r EXCEPT ![index + 1].columnBreak = IF enable THEN "1" ELSE "0"],
                  TRUE, TRUE)

SetParagraphStyle(r, index, para_pr_id) ==
    IF OutOfRange(r, index) THEN Returned(r, FALSE, FALSE)
    ELSE Returned([r EXCEPT ![index + 1].paraPrIDRef = para_pr_id], TRUE, TRUE)

SetCharStyle(r, para_index, char_pr_id) ==
    IF OutOfRange(r, para_index) THEN Returned(r, FALSE, FALSE)
    ELSE Returned([r EXCEPT ![para_index + 1].charPrIDRef = char_pr_id], TRUE, TRUE)

InsertTableAfter(r, after_index, rows, cols, col_widths) ==
    IF OutOfRange(r, after_index) THEN Returned(r, FALSE, FALSE)
    ELSE IF CreateTableParagraphExc(rows, cols, col_widths) # "none"
         THEN Raised(r, CreateTableParagraphExc(rows, cols, col_widths))
    ELSE Returned(InsertAt(r, after_index + 1,
                           CreateTableParagraph(rows, cols, col_widths)),
                  TRUE, TRUE)

InsertImageAfter(r, after_index) ==
    IF OutOfRange(r, after_index) THEN Returned(r, FALSE, FALSE)
    ELSE Returned(InsertAt(r, after_index + 1, CreateImageParagraph), TRUE, TRUE)

----------------------------------------------------------------------------
(* HwpxEditor: the instance and the calls made on it *)

\* every sequence over S of length at most n
SeqsUpTo(S, n) == UNION {[1..k -> S] : k \in 0..n}

\* a paragraph holding one run with one hp:t
TextPara(text, pb) == Para(0, 0, pb, "0", <<text>>, 0, "none", <<>>, <<>>)

\* the paragraphs the bodies an editor is loaded with are made of: text
\* paragraphs, one starting a page, and a 1x1 table whose cell holds text
EditorParas ==
    { TextPara(<<"b", "a">>, "0"),
      TextPara(<<"a", "b">>, "1"),
      Para(0, 0, "0", "0", <<>>, 0, "tbl", <<1, 1, DefaultTableWidth>>,
           <<TextPara(<<"a">>, "0")>>) }

\* a body of one paragraph containing "foo foo"
FooBody == <<TextPara(<<"f", "o", "o", " ", "f", "o", "o">>, "0")>>

\* a body of three different paragraphs
ThreeBody == <<TextPara(<<"a">>, "0"), TextPara(<<"b">>, "0"), TextPara(<<"c">>, "1")>>

EditorBodies == SeqsUpTo(EditorParas, MaxInitParas) \cup {FooBody, ThreeBody}

\* index arguments: every index of the body, one below and one above
Indices(r) == (-1)..Len(r)

\* end arguments of delete_paragraphs_range: up to one past the length
RangeEnds(r) == (-1)..(Len(r) + 1)

\* text arguments of the insert operations
InsertTexts == { <<"a">>, <<"b", "\n", "a">> }

\* <<old_text, new_text, count>> arguments of replace_text
ReplaceArgs ==
    { <<<<"a">>, <<"b">>, -1>>, <<<<"a">>, <<"b">>, 0>>,
      <<<<"a">>, <<"b">>, 1>>,  <<<<"a">>, <<"b">>, 2>>,
      <<<<"a">>, <<>>, -1>>,    <<<<"a">>, <<>>, 2>>,
      <<<<"a">>, <<"a", "a">>, 1>>,
      <<<<"b">>, <<"c">>, -1>>,
      <<<<"f", "o", "o">>, <<"b", "a", "r">>, 1>> }

\* <<rows, cols, col_widths>> arguments of insert_table_after (<<>> is None)
TableArgs ==
    { <<2, 1, <<>>>>, <<0, 0, <<>>>>, <<1, 0, <<>>>>,
      <<1, 2, <<100>>>>, <<1, 1, <<100>>>> }

StyleIds == {1}

NoCall == [op |-> "load", args |-> <<>>, ret |-> "none", exc |-> "none",
           actual |-> 0, before |-> <<>>, was_modified |-> FALSE]

\* one call on the editor with outcome res
Call(op, args, res) ==
    /\ nops < MaxOps
    /\ root' = res.root
    /\ modified' = (modified \/ res.mod)
    /\ last' = [op |-> op, args |-> args, ret |-> res.ret, exc |-> res.exc,
                actual |-> res.actual, before |-> root, was_modified |-> modified]
    /\ nops' = nops + 1
    /\ UNCHANGED serialized
    /\ UNCHANGED <<searcherVars, writerVars, readerVars, packageVars, styleVars>>

insert_paragraph_after ==
    \E i \in Indices(root), text \in InsertTexts :
        Call("insert_paragraph_after", <<i, text>>, InsertParagraphAfter(root, i, text))

insert_paragraph_before ==
    \E i \in Indices(root), text \in InsertTexts :
        Call("insert_paragraph_before", <<i, text>>, InsertParagraphBefore(root, i, text))

append_paragraph ==
    \E text \in InsertTexts :
        Call("append_paragraph", <<text>>, AppendParagraph(root, text))

delete_paragraph ==
    \E i \in Indices(root) :
        Call("delete_paragraph", <<i>>, DeleteParagraph(root, i))

delete_paragraphs_range ==
    \E start \in Indices(root), end \in RangeEnds(root) :
        Call("delete_paragraphs_range", <<start, end>>,
             DeleteParagraphsRange(root, start, end))

replace_text ==
    \E a \in ReplaceArgs :
        Call("replace_text", a, ReplaceText(root, a[1], a[2], a[3]))

set_paragraph_text ==
    \E i \in Indices(root), text \in InsertTexts :
        Call("set_paragraph_text", <<i, text>>, SetParagraphText(root, i, text))

copy_paragraph ==
    \E from \in Indices(root), to \in Indices(root) :
        Call("copy_paragraph", <<from, to>>, CopyParagraph(root, from, to))

move_paragraph ==
    \E from \in Indices(root), to \in Indices(root) :
        Call("move_paragraph", <<from, to>>, MoveParagraph(root, from, to))

set_page_break ==
    \E i \in Indices(root), enable \in BOOLEAN :
        Call("set_page_break", <<i, enable>>, SetPageBreak(root, i, enable))

set_column_break ==
    \E i \in Indices(root), enable \in BOOLEAN :
        Call("set_column_break", <<i, enable>>, SetColumnBreak(root, i, enable))

set_paragraph_style ==
    \E i \in Indices(root), id \in StyleIds :
        Call("set_paragraph_style", <<i, id>>, SetParagraphStyle(root, i, id))

set_char_style ==
    \E i \in Indices(root), id \in StyleIds :
        Call("set_char_style", <<i, id>>, SetCharStyle(root, i, id))

insert_table_after ==
    \E i \in Indices(root), a \in TableArgs :
        Call("insert_table_after", <<i, a[1], a[2], a[3]>>,
             InsertTableAfter(root, i, a[1], a[2], a[3]))

insert_image_after ==
    \E i \in Indices(root) :
        Call("insert_image_after", <<i>>, InsertImageAfter(root, i))

\* etree.tostring(self.root, xml_declaration=True, standalone="yes")
ToBytes(r) == [xml_declaration |-> TRUE, standalone |-> "yes", root |-> r]

\* HwpxEditor.to_bytes(): returns the serialization of the tree and leaves
\* the editor as it is
to_bytes ==
    /\ serialized' = <<ToBytes(root)>>
    /\ UNCHANGED <<root, modified, last, nops,
                   searcherVars, writerVars, readerVars, packageVars, styleVars>>

EditorNext ==
    \/ to_bytes
    \/ insert_paragraph_after
    \/ insert_paragraph_before
    \/ append_paragraph
    \/ delete_paragraph
    \/ delete_paragraphs_range
    \/ replace_text
    \/ set_paragraph_text
    \/ copy_paragraph
    \/ move_paragraph
    \/ set_page_break
    \/ set_column_break
    \/ set_paragraph_style
    \/ set_char_style
    \/ insert_table_after
    \/ insert_image_after

----------------------------------------------------------------------------
(* HwpxSearcher *)

RECURSIVE FlattenParas(_)
\* root.xpath(".//hp:p"): every paragraph of the body in document order,
\* the paragraphs nested in a table after the paragraph holding the table
FlattenParas(r) ==
    IF r = <<>> THEN <<>>
    ELSE <<Head(r)>> \o Head(r).sub \o FlattenParas(Tail(r))

RECURSIVE ParseBreaks(_, _)
\* the loop of _parse over enumerate(self._paragraphs), from 0-based index i
ParseBreaks(paras, i) ==
    IF paras = <<>> THEN <<>>
    ELSE (IF Head(paras).pageBreak = "1" THEN <<i>> ELSE <<>>)
         \o (IF Head(paras).columnBreak = "1" THEN <<i>> ELSE <<>>)
         \o ParseBreaks(Tail(paras), i + 1)

\* a variant of _parse that enumerates the paragraphs from 1
PageBreaksOneBased(paras) == ParseBreaks(paras, 1)

\* self._page_breaks as _parse leaves it
PageBreaks(paras) == ParseBreaks(paras, 0)

RECURSIVE EstimateLoop(_, _, _)
\* the loop of _estimate_page over self._page_breaks
EstimateLoop(breaks, para_index, page) ==
    IF breaks = <<>> THEN page
    ELSE IF Head(breaks) < para_index
         THEN EstimateLoop(Tail(breaks), para_index, page + 1)
         ELSE page

\* a variant of _estimate_page that counts the break of the paragraph itself
EstimatePageInclusive(breaks, para_index) == EstimateLoop(breaks, para_index + 1, 1)

\* _estimate_page(para_index)
EstimatePage(breaks, para_index) == EstimateLoop(breaks, para_index, 1)

\* a paragraph without text carrying the given break attributes
BreakPara(pb, cb) == Para(0, 0, pb, cb, <<>>, 0, "none", <<>>, <<>>)

SearcherParas ==
    { BreakPara("0", "0"), BreakPara("1", "0"), BreakPara("0", "1"),
      BreakPara("1", "1"),
      Para(0, 0, "0", "0", <<>>, 0, "tbl", <<1, 1, DefaultTableWidth>>,
           <<BreakPara("1", "0")>>) }

\* eight paragraphs with page breaks on the paragraphs of index 3 and 7
ExampleBody ==
    [i \in 1..8 |-> IF i \in {4, 8} THEN BreakPara("1", "0") ELSE BreakPara("0", "0")]

SearcherBodies == SeqsUpTo(SearcherParas, MaxBodyLen) \cup {ExampleBody}

\* a query and its result: index is the argument (a paragraph index, or the
\* page asked for), page_estimate the page number returned and results the
\* indices of the paragraphs of a returned list
NoQuery == [query |-> "none", index |-> 0, found |-> FALSE, page_estimate |-> 0,
            results |-> <<>>]

\* HwpxSearcher.__init__(section_xml): keeps the body and runs _parse
s_init ==
    /\ s_pc = "new"
    /\ s_paragraphs' = FlattenParas(s_root)
    /\ s_page_breaks' = PageBreaks(FlattenParas(s_root))
    /\ s_pc' = "parsed"
    /\ UNCHANGED <<s_root, s_last, editorVars, writerVars, readerVars, packageVars, styleVars>>

\* HwpxSearcher.get_paragraph(index)
get_paragraph ==
    /\ s_pc = "parsed"
    /\ \E index \in (-1)..Len(s_paragraphs) :
         s_last' = IF index < 0 \/ index >= Len(s_paragraphs)
                   THEN [NoQuery EXCEPT !.query = "get_paragraph", !.index = index]
                   ELSE [NoQuery EXCEPT !.query = "get_paragraph", !.index = index,
                                        !.found = TRUE,
                                        !.page_estimate =
                                            EstimatePage(s_page_breaks, index)]
    /\ UNCHANGED <<s_root, s_paragraphs, s_page_breaks, s_pc,
                   editorVars, writerVars, readerVars, packageVars, styleVars>>

\* len(self._page_breaks) + 1
PageCountEstimate(breaks) == Len(breaks) + 1

\* HwpxSearcher.get_page_count_estimate()
get_page_count_estimate ==
    /\ s_pc = "parsed"
    /\ s_last' = [NoQuery EXCEPT !.query = "get_page_count_estimate", !.found = TRUE,
                                 !.page_estimate =
                                     PageCountEstimate(s_page_breaks)]
    /\ UNCHANGED <<s_root, s_paragraphs, s_page_breaks, s_pc,
                   editorVars, writerVars, readerVars, packageVars, styleVars>>

\* the paragraphs get_paragraphs_by_page(page) returns, by index
ParagraphsByPage(breaks, paras, page) ==
    LET Idx == [i \in 1..Len(paras) |-> i - 1]
        OnPage(i) == EstimatePage(breaks, i) = page
    IN SelectSeq(Idx, OnPage)

\* HwpxSearcher.get_paragraphs_by_page(page)
get_paragraphs_by_page ==
    /\ s_pc = "parsed"
    /\ \E page \in 0..(Len(s_page_breaks) + 2) :
         s_last' = [NoQuery EXCEPT !.query = "get_paragraphs_by_page", !.index = page,
                                  !.found = TRUE,
                                  !.results =
                                      ParagraphsByPage(s_page_breaks, s_paragraphs, page)]
    /\ UNCHANGED <<s_root, s_paragraphs, s_page_breaks, s_pc,
                   editorVars, writerVars, readerVars, packageVars, styleVars>>

SearcherNext ==
    \/ s_init
    \/ get_paragraph
    \/ get_page_count_estimate
    \/ get_paragraphs_by_page

\* the ID context while no write is under way
NoContext == [para_id |-> 0, tbl_id |-> 0, pic_id |-> 0]

\* HwpxEditor.__init__ on a body; no searcher, writer or reader is involved
EditorInit ==
    /\ root \in EditorBodies
    /\ modified = FALSE
    /\ last = NoCall
    /\ nops = 0
    /\ serialized = <<>>
    /\ hwpx = <<>>
    /\ hwpx_package = <<>>
    /\ s_root = <<>>
    /\ s_paragraphs = <<>>
    /\ s_page_breaks = <<>>
    /\ s_pc = "none"
    /\ s_last = NoQuery
    /\ doc = <<>>
    /\ context = NoContext
    /\ eq_counter = 0
    /\ body = <<>>
    /\ w_pc = "none"
    /\ section = <<>>
    /\ r_pc = "none"
    /\ bin_data = {}
    /\ template = <<>>
    /\ binary_items = <<>>
    /\ package = <<>>
    /\ nwrites = 0
    /\ header_xml = <<>>
    /\ style_manager = <<>>
    /\ char_pr_ids = <<>>
    /\ header_out = <<>>

SpecEditor == EditorInit /\ [][EditorNext]_vars

\* the body a searcher is about to be constructed on; no editor, writer or
\* reader is involved
SearcherInit ==
    /\ s_root \in SearcherBodies
    /\ s_paragraphs = <<>>
    /\ s_page_breaks = <<>>
    /\ s_pc = "new"
    /\ s_last = NoQuery
    /\ root = <<>>
    /\ modified = FALSE
    /\ last = NoCall
    /\ nops = 0
    /\ serialized = <<>>
    /\ hwpx = <<>>
    /\ hwpx_package = <<>>
    /\ doc = <<>>
    /\ context = NoContext
    /\ eq_counter = 0
    /\ body = <<>>
    /\ w_pc = "none"
    /\ section = <<>>
    /\ r_pc = "none"
    /\ bin_data = {}
    /\ template = <<>>
    /\ binary_items = <<>>
    /\ package = <<>>
    /\ nwrites = 0
    /\ header_xml = <<>>
    /\ style_manager = <<>>
    /\ char_pr_ids = <<>>
    /\ header_out = <<>>

SpecSearcher == SearcherInit /\ [][SearcherNext]_vars

\* _get_searcher(path) and _get_editor(path): a searcher and an editor
\* constructed on the same section0.xml
QueryInit ==
    /\ s_root \in SearcherBodies
    /\ s_paragraphs = <<>>
    /\ s_page_breaks = <<>>
    /\ s_pc = "new"
    /\ s_last = NoQuery
    /\ root = s_root
    /\ modified = FALSE
    /\ last = NoCall
    /\ nops = 0
    /\ serialized = <<>>
    /\ hwpx = <<>>
    /\ hwpx_package = <<>>
    /\ doc = <<>>
    /\ context = NoContext
    /\ eq_counter = 0
    /\ body = <<>>
    /\ w_pc = "none"
    /\ section = <<>>
    /\ r_pc = "none"
    /\ bin_data = {}
    /\ template = <<>>
    /\ binary_items = <<>>
    /\ package = <<>>
    /\ nwrites = 0
    /\ header_xml = <<>>
    /\ style_manager = <<>>
    /\ char_pr_ids = <<>>
    /\ header_out = <<>>

\* the queries of the searcher and the calls on the editor that take a
\* paragraph index
QueryNext ==
    \/ s_init
    \/ get_paragraph
    \/ delete_paragraph
    \/ set_page_break

SpecQuery == QueryInit /\ [][QueryNext]_vars

----------------------------------------------------------------------------
(* XML elements and their serialization *)

\* an element: its tag, its attributes and its children
El(tag, attrs, kids) == [tag |-> tag, attrs |-> attrs, kids |-> kids]

\* elem.get(name, default)
Attr(el, name, default) ==
    IF name \in DOMAIN el.attrs THEN el.attrs[name] ELSE default

\* an optional value: None is <<>>, a present value x is <<x>>
None == <<>>

Some(x) == <<x>>

\* etree.tostring(elem, encoding="UTF-8"): the element followed by its tail
\* text ("" no tail, "ws" white space, "text" character data)
EtreeToString(elem, tail) == [elem |-> elem, tail |-> tail]

\* what etree.fromstring raises on content after the document element
XMLSyntaxError == El("XMLSyntaxError", <<>>, <<>>)

\* etree.fromstring(bytes): the document element, without tail; character
\* data after the document element is a syntax error
FromString(bytes) == IF bytes.tail = "text" THEN XMLSyntaxError ELSE bytes.elem

RECURSIVE HasError(_)
\* an exception was raised while the elements els were built
HasError(els) ==
    \E i \in 1..Len(els) : els[i] = XMLSyntaxError \/ HasError(els[i].kids)

RECURSIVE IdsOf(_, _)
\* the id attributes of the elements with a tag in tags among els and their
\* descendants, in document order
IdsOf(tags, els) ==
    IF els = <<>> THEN <<>>
    ELSE (IF Head(els).tag \in tags /\ "id" \in DOMAIN Head(els).attrs
          THEN <<Head(els).attrs.id>> ELSE <<>>)
         \o IdsOf(tags, Head(els).kids)
         \o IdsOf(tags, Tail(els))

\* no value occurs twice in the sequence s
NoDuplicates(s) == \A i, j \in 1..Len(s) : i # j => s[i] # s[j]

\* the values occurring in the sequence s
Range(s) == {s[i] : i \in 1..Len(s)}

----------------------------------------------------------------------------
(* HwpxIdContext and the component writers *)

\* HwpxIdContext.__init__: self.pic_id
PicIdBase == 2000000000

\* HwpxIdContext()
NewIdContext == [para_id |-> 0, tbl_id |-> 0, pic_id |-> PicIdBase]

\* context after next_para_id(), which returned ctx.para_id
AfterParaId(ctx) == [ctx EXCEPT !.para_id = @ + 1]

\* context after next_tbl_id(), which returned ctx.tbl_id
AfterTblId(ctx) == [ctx EXCEPT !.tbl_id = @ + 1]

\* context after next_pic_id(), which returned ctx.pic_id
AfterPicId(ctx) == [ctx EXCEPT !.pic_id = @ + 1]

LineSegArray == El("linesegarray", <<>>, <<>>)

\* what a builder hands back: the elements it built, and the ID context and
\* the inline equation counter as it leaves them
Built(els, ctx, eqc) == [els |-> els, ctx |-> ctx, eqc |-> eqc]

\* the elements els, then what the rest of a loop built
Prepend(els, rest) == [rest EXCEPT !.els = els \o @]

\* the run ParagraphWriter.build emits for one inline; eq_id is the id
\* InlineEquationBuilder.next_id() returns
InlineRun(inline, eq_id) ==
    CASE inline = "text" -> El("run", <<>>, <<El("t", <<>>, <<>>)>>)
      [] inline = "lineBreak" -> El("run", <<>>, <<El("lineBreak", <<>>, <<>>)>>)
      [] inline = "tab" -> El("run", <<>>, <<El("tab", <<>>, <<>>)>>)
      [] inline = "inlineEquation" ->
            El("run", <<>>, <<El("equation", [id |-> eq_id], <<>>), El("t", <<>>, <<>>)>>)
      [] OTHER -> El("run", <<>>, <<>>)

RECURSIVE BuildRuns(_, _)
\* the loop of ParagraphWriter.build over para.inlines
BuildRuns(inlines, eqc) ==
    IF inlines = <<>> THEN [els |-> <<>>, eqc |-> eqc]
    ELSE IF Head(inlines) = "inlineEquation"
    THEN Prepend(<<InlineRun(Head(inlines), eqc + 1)>>, BuildRuns(Tail(inlines), eqc + 1))
    ELSE Prepend(<<InlineRun(Head(inlines), eqc)>>, BuildRuns(Tail(inlines), eqc))

\* an IrParagraph: its inlines and its preserved raw fragment
IrParagraph(inlines, raw_xml) == [inlines |-> inlines, raw_xml |-> raw_xml]

\* the hp:p ParagraphWriter.build synthesizes around the runs it built
SynthesizedParagraph(paragraph_id, runs) ==
    [el |-> El("p", [id |-> paragraph_id, pageBreak |-> "0"], runs.els \o <<LineSegArray>>),
     eqc |-> runs.eqc]

\* ParagraphWriter.build(para, paragraph_id)
ParagraphBuild(para, paragraph_id, eqc) ==
    IF para.raw_xml # None
    THEN [el |-> FromString(para.raw_xml[1]), eqc |-> eqc]
    ELSE IF para.inlines = <<>>
    THEN [el |-> El("p", [id |-> paragraph_id, pageBreak |-> "0"],
                    <<El("run", <<>>, <<>>), LineSegArray>>),
          eqc |-> eqc]
    ELSE SynthesizedParagraph(paragraph_id, BuildRuns(para.inlines, eqc))

\* ParagraphWriter.build_empty(paragraph_id)
BuildEmpty(paragraph_id, eqc) == ParagraphBuild(IrParagraph(<<>>, None), paragraph_id, eqc)

\* HwpxIrWriter._build_control_paragraph(ctrl, paragraph_id)
BuildControlParagraph(ctrl, paragraph_id) ==
    El("p", [id |-> paragraph_id, pageBreak |-> "0"],
       <<El("run", <<>>, <<ctrl>>), LineSegArray>>)

\* an IrBlock: its type, the payload stored under that type (None when the
\* field is not set) and its page_break flag
IrBlock(type, payload, page_break) ==
    [type |-> type, payload |-> payload, page_break |-> page_break]

RECURSIVE BuildCellBlocks(_, _, _)
\* the paragraph p built for a block of a cell, then the rest of the loop
CellBlocksAfter(p, blocks, ctx) == Prepend(<<p.el>>, BuildCellBlocks(blocks, ctx, p.eqc))

\* the loop of TableWriter._build_cell over cell.blocks: paragraph blocks only
BuildCellBlocks(blocks, ctx, eqc) ==
    IF blocks = <<>> THEN Built(<<>>, ctx, eqc)
    ELSE IF Head(blocks).type = "paragraph" /\ Head(blocks).payload # None
    THEN CellBlocksAfter(ParagraphBuild(Head(blocks).payload[1], ctx.para_id, eqc),
                         Tail(blocks), AfterParaId(ctx))
    ELSE BuildCellBlocks(Tail(blocks), ctx, eqc)

\* "x or y" on an optional size: None and 0 are false
OrSize(x, y) == IF x = None THEN y ELSE IF x[1] = 0 THEN y ELSE x

\* the hp:cellSz of _build_cell:
\* width = computed_width or cell.width_hwpunit or 10000, and the height
\* likewise with 1000
CellSz(cell, computed_width, computed_height) ==
    El("cellSz",
       [width |-> OrSize(computed_width, OrSize(cell.width_hwpunit, Some(DefaultCellWidth)))[1],
        height |-> OrSize(computed_height, OrSize(cell.height_hwpunit, Some(DefaultCellHeight)))[1]],
       <<>>)

\* the hp:tc around the paragraphs ps built for the cell: a cell without
\* paragraphs gets one empty paragraph
CellAround(cell, ps, computed_width, computed_height) ==
    IF ps.els = <<>>
    THEN Built(<<El("tc", [rowAddr |-> cell.row, colAddr |-> cell.col],
                    <<El("subList", <<>>, <<BuildEmpty(ps.ctx.para_id, ps.eqc).el>>),
                      CellSz(cell, computed_width, computed_height)>>)>>,
               AfterParaId(ps.ctx), ps.eqc)
    ELSE Built(<<El("tc", [rowAddr |-> cell.row, colAddr |-> cell.col],
                    <<El("subList", <<>>, ps.els),
                      CellSz(cell, computed_width, computed_height)>>)>>,
               ps.ctx, ps.eqc)

\* TableWriter._build_cell
BuildCell(cell, ctx, eqc, computed_width, computed_height) ==
    CellAround(cell, BuildCellBlocks(cell.blocks, ctx, eqc), computed_width, computed_height)

RECURSIVE SumSlice(_, _, _)
\* sum(sizes[from:to]) for 0 <= from
SumSlice(sizes, from, to) ==
    IF from >= to \/ from >= Len(sizes) THEN 0
    ELSE sizes[from + 1] + SumSlice(sizes, from + 1, to)

\* the variant of the size computation of TableWriter.build that takes the
\* size of the first column (row) of the cell only
ComputedSizeOfFirst(sizes, own, at, span) ==
    IF sizes # None /\ sizes # Some(<<>>) /\ at < Len(sizes[1])
    THEN Some(sizes[1][at + 1])
    ELSE own

\* cell_width (cell_height) of TableWriter.build: the sizes of the table
\* first, summed over the span of the cell; own is the size of the cell
ComputedSize(sizes, own, at, span) ==
    IF sizes # None /\ sizes # Some(<<>>) /\ at < Len(sizes[1])
    THEN Some(SumSlice(sizes[1], at, at + span))
    ELSE own

RECURSIVE BuildCells(_, _, _, _)
\* the cell c built, then the rest of the row
CellsAfter(table, c, cells) == Prepend(c.els, BuildCells(table, cells, c.ctx, c.eqc))

\* the loop of TableWriter.build over the cells of one row
BuildCells(table, cells, ctx, eqc) ==
    IF cells = <<>> THEN Built(<<>>, ctx, eqc)
    ELSE CellsAfter(table,
                    BuildCell(Head(cells), ctx, eqc,
                              ComputedSize(table.col_widths, Head(cells).width_hwpunit,
                                           Head(cells).col, Head(cells).col_span),
                              ComputedSize(table.row_heights, Head(cells).height_hwpunit,
                                           Head(cells).row, Head(cells).row_span)),
                    Tail(cells))

RECURSIVE SortedByCol(_)
\* sorted(cells, key=lambda c: c.col): a stable sort
SortedByCol(cells) ==
    IF cells = <<>> THEN <<>>
    ELSE LET m == CHOOSE i \in 1..Len(cells) :
                     /\ \A j \in 1..Len(cells) : cells[i].col <= cells[j].col
                     /\ \A j \in 1..(i - 1) : cells[j].col # cells[i].col
         IN <<cells[m]>> \o SortedByCol(RemoveAt(cells, m - 1))

\* the cells of row r in the order of table.cells
RowCells(cells, r) == Keep(cells, {i \in 0..(Len(cells) - 1) : cells[i + 1].row # r}, 0)

\* the first of sorted(row_map.keys())
FirstRow(rows) == CHOOSE x \in rows : \A y \in rows : x <= y

RECURSIVE BuildRows(_, _, _, _)
\* the hp:tr around the cells tcs built for a row, then the rest of the rows
RowsAfter(table, tcs, rows) ==
    Prepend(<<El("tr", <<>>, tcs.els)>>, BuildRows(table, rows, tcs.ctx, tcs.eqc))

\* the loop of TableWriter.build over sorted(row_map.keys())
BuildRows(table, rows, ctx, eqc) ==
    IF rows = {} THEN Built(<<>>, ctx, eqc)
    ELSE RowsAfter(table,
                   BuildCells(table, SortedByCol(RowCells(table.cells, FirstRow(rows))),
                              ctx, eqc),
                   rows \ {FirstRow(rows)})

\* an IrTable without col_widths and row_heights: its cells and its
\* preserved raw fragment
IrTable(cells, raw_xml) ==
    [cells |-> cells, raw_xml |-> raw_xml, col_widths |-> None, row_heights |-> None]

\* the hp:tbl around the rows built for it
TableAround(tbl_id, rows) ==
    Built(<<El("tbl", [id |-> tbl_id, pageBreak |-> "CELL"], rows.els)>>, rows.ctx, rows.eqc)

\* TableWriter.build(table, context)
TableBuild(table, ctx, eqc) ==
    IF table.raw_xml # None
    THEN Built(<<FromString(table.raw_xml[1])>>, ctx, eqc)
    ELSE TableAround(ctx.tbl_id,
                     BuildRows(table,
                               {table.cells[i].row : i \in 1..Len(table.cells)},
                               AfterTblId(ctx), eqc))

\* ImageWriter.build(image, pic_id)
ImageBuild(image, pic_id) ==
    IF image.raw_xml # None THEN FromString(image.raw_xml[1])
    ELSE El("pic", [id |-> pic_id], <<El("img", [binaryItemIDRef |-> image.image_id], <<>>)>>)

\* EquationWriter.build(eq, eq_id)
EquationBuild(eq_id) == El("equation", [id |-> eq_id], <<El("script", <<>>, <<>>)>>)

RECURSIVE ListBuild(_, _, _)
\* the paragraph p built for a list item, then the rest of the items
ListAfter(p, items, ctx) == Prepend(<<p.el>>, ListBuild(items, ctx, p.eqc))

\* ListWriter.build: one paragraph per item, built from item.content
ListBuild(items, ctx, eqc) ==
    IF items = <<>> THEN Built(<<>>, ctx, eqc)
    ELSE ListAfter(ParagraphBuild(Head(items), ctx.para_id, eqc), Tail(items), AfterParaId(ctx))

\* TOCWriter.build: the title, an empty paragraph and one paragraph per entry
TOCBuild(entries, ctx, eqc) ==
    ListBuild(<<IrParagraph(<<"text">>, None), IrParagraph(<<>>, None)>>
              \o [i \in 1..entries |-> IrParagraph(<<"text">>, None)],
              ctx, eqc)

\* SectionWriter._build_header_footer(item, is_header)
BuildHeaderFooter(is_header) ==
    El("ctrl", <<>>,
       <<El(IF is_header THEN "header" ELSE "footer", [id |-> 1],
            <<El("subList", <<>>,
                 <<El("p", [id |-> 0, pageBreak |-> "0"],
                      <<El("run", <<>>, <<El("t", <<>>, <<>>)>>), LineSegArray>>)>>)>>)>>)

\* SectionWriter.build_definition(section) for a one-column section
BuildDefinition(sec) ==
    <<El("secPr", <<>>, <<>>)>>
    \o (IF sec.header THEN <<BuildHeaderFooter(TRUE)>> ELSE <<>>)
    \o (IF sec.footer THEN <<BuildHeaderFooter(FALSE)>> ELSE <<>>)

\* an IrSection: whether it has a header and a footer, and its blocks
IrSection(header, footer, blocks) == [header |-> header, footer |-> footer, blocks |-> blocks]

\* p.set("pageBreak", "1")
SetPageBreakAttr(el) ==
    IF el = XMLSyntaxError THEN el
    ELSE [el EXCEPT !.attrs = [a \in DOMAIN @ \cup {"pageBreak"} |->
                                  IF a = "pageBreak" THEN "1" ELSE @[a]]]

\* the elements of a paragraph block whose paragraph was built as p
ParagraphElements(p, page_break, ctx) ==
    Built(<<IF page_break THEN SetPageBreakAttr(p.el) ELSE p.el>>, ctx, p.eqc)

\* the elements of a table, image or equation block whose control was built
\* as c: a new paragraph that wraps it
ControlElements(c) ==
    Built(<<BuildControlParagraph(c.els[1], c.ctx.para_id)>>, AfterParaId(c.ctx), c.eqc)

\* HwpxIrWriter._process_block(block, context)
ProcessBlock(block, ctx, eqc) ==
    IF block.type = "paragraph" /\ block.payload # None
    THEN ParagraphElements(ParagraphBuild(block.payload[1], ctx.para_id, eqc),
                           block.page_break, AfterParaId(ctx))
    ELSE IF block.type = "table" /\ block.payload # None
    THEN ControlElements(TableBuild(block.payload[1], ctx, eqc))
    ELSE IF block.type = "image" /\ block.payload # None
    THEN ControlElements(Built(<<ImageBuild(block.payload[1], ctx.pic_id)>>,
                               AfterPicId(ctx), eqc))
    ELSE IF block.type = "equation" /\ block.payload # None
    THEN ControlElements(Built(<<EquationBuild(ctx.pic_id)>>, AfterPicId(ctx), eqc))
    ELSE IF block.type = "list" /\ block.payload # None
    THEN ListBuild(block.payload[1].items, ctx, eqc)
    ELSE IF block.type = "toc" /\ block.payload # None
    THEN TOCBuild(block.payload[1].entries, ctx, eqc)
    ELSE Built(<<>>, ctx, eqc)

RECURSIVE ProcessBlocks(_, _, _)
\* the elements b of one block, then the rest of the blocks
BlocksAfter(b, blocks) == Prepend(b.els, ProcessBlocks(blocks, b.ctx, b.eqc))

\* the loop "for b in processing_blocks" of _build_section0
ProcessBlocks(blocks, ctx, eqc) ==
    IF blocks = <<>> THEN Built(<<>>, ctx, eqc)
    ELSE BlocksAfter(ProcessBlock(Head(blocks), ctx, eqc), Tail(blocks))

\* anchor_para after "for ctrl in reversed(controls): run.insert(0, ctrl)"
InsertControls(anchor, controls) ==
    IF anchor = XMLSyntaxError \/ Len(anchor.kids) = 0 THEN anchor
    ELSE [anchor EXCEPT !.kids[1].kids = controls \o @]

\* the first block of a section is a paragraph block
FirstIsParagraph(blocks) ==
    /\ blocks # <<>>
    /\ Head(blocks).type = "paragraph"
    /\ Head(blocks).payload # None

\* the section branch of _build_section0 once the anchor paragraph is built:
\* the controls go into the anchor, then the remaining blocks are processed
SectionAfterAnchor(anchor, controls, blocks, ctx) ==
    Prepend(<<InsertControls(anchor.el, controls)>>, ProcessBlocks(blocks, ctx, anchor.eqc))

\* one iteration of the loop of _build_section0 over doc.blocks
BuildSection0Block(block, ctx, eqc) ==
    IF block.type = "section" /\ block.payload # None
    THEN IF FirstIsParagraph(block.payload[1].blocks)
         THEN SectionAfterAnchor(
                  ParagraphBuild(Head(block.payload[1].blocks).payload[1], ctx.para_id, eqc),
                  BuildDefinition(block.payload[1]),
                  Tail(block.payload[1].blocks), AfterParaId(ctx))
         ELSE SectionAfterAnchor(
                  BuildEmpty(ctx.para_id, eqc),
                  BuildDefinition(block.payload[1]),
                  block.payload[1].blocks, AfterParaId(ctx))
    ELSE ProcessBlock(block, ctx, eqc)

RECURSIVE BuildSection0Loop(_, _, _)
\* the elements b of one block of the document, then the rest of the blocks
Section0After(b, blocks) == Prepend(b.els, BuildSection0Loop(blocks, b.ctx, b.eqc))

\* the loop "for block in doc.blocks" of _build_section0
BuildSection0Loop(blocks, ctx, eqc) ==
    IF blocks = <<>> THEN Built(<<>>, ctx, eqc)
    ELSE Section0After(BuildSection0Block(Head(blocks), ctx, eqc), Tail(blocks))

\* the variant of _init_writers that creates the component writers on the
\* first write only: the counter of the paragraph writer is kept
InitWritersOnce(eqc) == eqc

\* HwpxIrWriter._init_writers(): the counter of the inline equation builder
\* of the ParagraphWriter it creates, whatever the counter eqc of the one
\* it replaces
InitWriters(eqc) == 0

\* HwpxIrWriter._build_section0(doc): a fresh HwpxIdContext; eqc is the
\* inline equation counter of the paragraph writer of the HwpxIrWriter
BuildSection0(blocks, eqc) == BuildSection0Loop(blocks, NewIdContext, eqc)

----------------------------------------------------------------------------
(* StyleManager: the style catalog of header.xml, in writer.py and in      *)
(* hwpx_writer.py                                                          *)

\* dict with d[key] = value
MapPut(d, key, value) ==
    [k \in DOMAIN d \cup {key} |-> IF k = key THEN value ELSE d[k]]

\* elem.set(name, value)
SetAttr(el, name, value) == [el EXCEPT !.attrs = MapPut(@, name, value)]

\* 0-based index of the first of els that has the tag, -1 when none has
IndexOfTag(els, tag) ==
    IF \E i \in 1..Len(els) : els[i].tag = tag
    THEN (CHOOSE i \in 1..Len(els) :
              /\ els[i].tag = tag
              /\ \A j \in 1..(i - 1) : els[j].tag # tag) - 1
    ELSE -1

\* elem.find(tag): the first child with the tag, None when there is none
FindEl(el, tag) ==
    IF IndexOfTag(el.kids, tag) < 0 THEN None
    ELSE Some(el.kids[IndexOfTag(el.kids, tag) + 1])

\* elem.findall(tag): the children with the tag, in order
FindAll(el, tag) == SelectSeq(el.kids, LAMBDA k : k.tag = tag)

\* etree.SubElement(parent, ...): parent with one more last child
SubElement(parent, child) == [parent EXCEPT !.kids = Append(@, child)]

\* an IrTextRun: the fields of its character signature
IrTextRun(bold, italic, font_size, font_family, color) ==
    [bold |-> bold, italic |-> italic, font_size |-> font_size,
     font_family |-> font_family, color |-> color]

\* StyleManager.DEFAULT_FONT_ID
DefaultFontId == 1

\* the language attributes of hh:fontRef that _update_default_font sets
FontRefLangs == {"hangul", "latin", "hanja", "japanese", "other", "symbol", "user"}

\* font_ref after "for attr in [...]: font_ref.set(attr, str(DEFAULT_FONT_ID))"
SetDefaultFont(font_ref) ==
    [font_ref EXCEPT !.attrs = [a \in DOMAIN @ \cup FontRefLangs |->
                                   IF a \in FontRefLangs THEN DefaultFontId ELSE @[a]]]

\* 0-based index of the first hh:charPr among els whose id is "0", -1 when
\* there is none
IndexOfDefaultCharPr(els) ==
    IF \E i \in 1..Len(els) : els[i].tag = "charPr" /\ Attr(els[i], "id", -1) = 0
    THEN (CHOOSE i \in 1..Len(els) :
              /\ els[i].tag = "charPr" /\ Attr(els[i], "id", -1) = 0
              /\ \A j \in 1..(i - 1) :
                     ~(els[j].tag = "charPr" /\ Attr(els[j], "id", -1) = 0)) - 1
    ELSE -1

\* the hh:charPr cp with its first hh:fontRef child, if it has one, set to
\* the default font
WithDefaultFont(cp) ==
    IF IndexOfTag(cp.kids, "fontRef") < 0 THEN cp
    ELSE [cp EXCEPT !.kids[IndexOfTag(cp.kids, "fontRef") + 1] = SetDefaultFont(@)]

\* StyleManager._update_default_font (writer.py) on self.char_prs_node
UpdateDefaultFont(char_prs_node) ==
    IF char_prs_node = None THEN None
    ELSE IF IndexOfDefaultCharPr(char_prs_node[1].kids) < 0 THEN char_prs_node
    ELSE Some([char_prs_node[1] EXCEPT
                  !.kids[IndexOfDefaultCharPr(char_prs_node[1].kids) + 1] = WithDefaultFont(@)])

\* ref_list of StyleManager.__init__: hh:refList, the root when there is none
RefList(header) ==
    IF FindEl(header, "refList") = None THEN header ELSE FindEl(header, "refList")[1]

\* StyleManager.__init__(header_xml) of writer.py; font_map, which only
\* get_font_id reads, is not kept
StyleManagerInit(header) ==
    [module |-> "writer",
     root |-> header,
     fontfaces_node |-> FindEl(RefList(header), "fontfaces"),
     char_prs_node |-> UpdateDefaultFont(FindEl(RefList(header), "charProperties"))]

\* what a StyleManager method hands back: the manager as it leaves it, the
\* value returned and the exception raised ("none" when it returned)
SmReturned(sm, ret, exc) == [sm |-> sm, ret |-> ret, exc |-> exc]

\* StyleManager.get_char_pr_id(run) of writer.py
GetCharPrId(sm, run) == SmReturned(sm, 0, "none")

RECURSIVE LegacyFontMap(_)
\* self.font_map after the loop of StyleManager.__init__ (hwpx_writer.py)
\* over the hh:fontface elements: a later name replaces an earlier one
LegacyFontMap(ffs) ==
    IF ffs = <<>> THEN <<>>
    ELSE MapPut(LegacyFontMap(SubSeq(ffs, 1, Len(ffs) - 1)),
                Attr(ffs[Len(ffs)], "font", ""), Attr(ffs[Len(ffs)], "id", 0))

RECURSIVE NextIdAfter(_)
\* "if id >= next: next = id + 1" over the elements els, from 0
NextIdAfter(els) ==
    IF els = <<>> THEN 0
    ELSE Max(NextIdAfter(SubSeq(els, 1, Len(els) - 1)), Attr(els[Len(els)], "id", 0) + 1)

\* the children with the tag of an optional node
NodeChildren(node, tag) == IF node = None THEN <<>> ELSE FindAll(node[1], tag)

\* StyleManager.__init__(header_xml) of hwpx_writer.py
LegacyStyleManagerInit(header) ==
    [module |-> "hwpx_writer",
     root |-> header,
     fontfaces_node |-> FindEl(RefList(header), "fontfaces"),
     font_map |-> LegacyFontMap(NodeChildren(FindEl(RefList(header), "fontfaces"), "fontface")),
     next_font_id |-> NextIdAfter(NodeChildren(FindEl(RefList(header), "fontfaces"), "fontface")),
     char_prs_node |-> FindEl(RefList(header), "charProperties"),
     char_pr_map |-> <<>>,
     next_char_pr_id |->
         NextIdAfter(NodeChildren(FindEl(RefList(header), "charProperties"), "charPr"))]

\* StyleManager.get_font_id(font_name) of hwpx_writer.py for a non-empty
\* name; SubElement raises TypeError on a missing hh:fontfaces
LegacyGetFontId(sm, font_name) ==
    IF font_name \in DOMAIN sm.font_map
    THEN SmReturned(sm, sm.font_map[font_name], "none")
    ELSE IF sm.fontfaces_node = None
    THEN SmReturned([sm EXCEPT !.next_font_id = @ + 1], -1, "TypeError")
    ELSE SmReturned([sm EXCEPT
                        !.next_font_id = @ + 1,
                        !.fontfaces_node =
                            Some(SubElement(@[1], El("fontface",
                                                     [lang |-> "ko", font |-> font_name,
                                                      id |-> sm.next_font_id], <<>>))),
                        !.font_map = MapPut(@, font_name, sm.next_font_id)],
                    sm.next_font_id, "none")

\* the signature test of get_char_pr_id: all of the run is default
IsDefaultRun(run) ==
    /\ ~run.bold
    /\ ~run.italic
    /\ run.font_size = None
    /\ run.font_family = None
    /\ run.color = None

\* sig = (run.bold, run.italic, run.font_size, run.font_family, run.color)
Sig(run) == <<run.bold, run.italic, run.font_size, run.font_family, run.color>>

\* the font attributes get_char_pr_id sets on a new hh:charPr
FontRefAttrs ==
    {"fontRef", "fontRefHangul", "fontRefLatin", "fontRefHanja", "fontRefJapanese",
     "fontRefOther", "fontRefSymbol", "fontRefUser"}

\* the attributes attrs and those in names set to value
WithAttrs(attrs, names, value) ==
    [a \in DOMAIN attrs \cup names |-> IF a \in names THEN value ELSE attrs[a]]

\* the attributes of the hh:charPr created for run with the id cid; fid is
\* the font id, None for a run without font family
CharPrAttrs(run, cid, fid) ==
    WithAttrs(
        WithAttrs(
            WithAttrs([id |-> cid,
                       height |-> IF run.font_size # None THEN run.font_size[1] ELSE 1000,
                       textColor |-> IF run.color # None THEN run.color[1] ELSE "#000000"],
                      IF fid # None THEN FontRefAttrs ELSE {},
                      IF fid # None THEN fid[1] ELSE 0),
            IF run.bold THEN {"bold"} ELSE {}, 1),
        IF run.italic THEN {"italic"} ELSE {}, 1)

\* the end of get_char_pr_id on a cache miss: the new hh:charPr is in the
\* catalog and the signature is remembered
CharPrAdded(sm, run, cid, fid) ==
    SmReturned([sm EXCEPT
                   !.next_char_pr_id = cid + 1,
                   !.char_prs_node =
                       Some(SubElement(@[1], El("charPr", CharPrAttrs(run, cid, fid), <<>>))),
                   !.char_pr_map = MapPut(@, Sig(run), cid)],
               cid, "none")

\* get_char_pr_id after get_font_id answered f for the family of the run;
\* when it raised, the hh:charPr is in the catalog without font and the
\* signature is not remembered
CharPrWithFont(run, cid, f) ==
    IF f.exc # "none"
    THEN SmReturned([f.sm EXCEPT
                        !.next_char_pr_id = cid + 1,
                        !.char_prs_node =
                            Some(SubElement(@[1], El("charPr", CharPrAttrs(run, cid, None),
                                                     <<>>)))],
                    -1, f.exc)
    ELSE CharPrAdded(f.sm, run, cid, Some(f.ret))

\* the variant of get_char_pr_id (hwpx_writer.py) that does not look the
\* signature up before allocating
LegacyGetCharPrIdNoCache(sm, run) ==
    IF IsDefaultRun(run) THEN SmReturned(sm, 0, "none")
    ELSE IF sm.char_prs_node = None
    THEN SmReturned([sm EXCEPT !.next_char_pr_id = @ + 1], -1, "TypeError")
    ELSE IF run.font_family = None
    THEN CharPrAdded(sm, run, sm.next_char_pr_id, None)
    ELSE CharPrWithFont(run, sm.next_char_pr_id, LegacyGetFontId(sm, run.font_family[1]))

\* the variant of get_char_pr_id (hwpx_writer.py) without the test for the
\* all-default signature
LegacyGetCharPrIdNoDefault(sm, run) ==
    IF Sig(run) \in DOMAIN sm.char_pr_map
    THEN SmReturned(sm, sm.char_pr_map[Sig(run)], "none")
    ELSE IF sm.char_prs_node = None
    THEN SmReturned([sm EXCEPT !.next_char_pr_id = @ + 1], -1, "TypeError")
    ELSE IF run.font_family = None
    THEN CharPrAdded(sm, run, sm.next_char_pr_id, None)
    ELSE CharPrWithFont(run, sm.next_char_pr_id, LegacyGetFontId(sm, run.font_family[1]))

\* StyleManager.get_char_pr_id(run) of hwpx_writer.py; SubElement raises
\* TypeError on a missing hh:charProperties
LegacyGetCharPrId(sm, run) ==
    IF IsDefaultRun(run) THEN SmReturned(sm, 0, "none")
    ELSE IF Sig(run) \in DOMAIN sm.char_pr_map
    THEN SmReturned(sm, sm.char_pr_map[Sig(run)], "none")
    ELSE IF sm.char_prs_node = None
    THEN SmReturned([sm EXCEPT !.next_char_pr_id = @ + 1], -1, "TypeError")
    ELSE IF run.font_family = None
    THEN CharPrAdded(sm, run, sm.next_char_pr_id, None)
    ELSE CharPrWithFont(run, sm.next_char_pr_id, LegacyGetFontId(sm, run.font_family[1]))

\* an optional node with its itemCnt set to the number of its children
\* with the tag
Counted(node, tag) ==
    IF node = None THEN None
    ELSE Some(SetAttr(node[1], "itemCnt", Len(FindAll(node[1], tag))))

\* parent with its first child of that tag replaced by the node, if any
WithNode(parent, tag, node) ==
    IF node = None THEN parent
    ELSE [parent EXCEPT !.kids[IndexOfTag(parent.kids, tag) + 1] = node[1]]

\* the refList (or root) holding the manager's two nodes with their counts
UpdatedRefList(ref_list, sm) ==
    WithNode(WithNode(ref_list, "fontfaces", Counted(sm.fontfaces_node, "fontface")),
             "charProperties", Counted(sm.char_prs_node, "charPr"))

\* StyleManager.get_updated_header_xml(), the same in both modules: the
\* tree of the manager with the item counts set
GetUpdatedHeaderXml(sm) ==
    IF FindEl(sm.root, "refList") = None THEN UpdatedRefList(sm.root, sm)
    ELSE [sm.root EXCEPT !.kids[IndexOfTag(sm.root.kids, "refList") + 1] =
                             UpdatedRefList(@, sm)]

\* hh:fontRef naming the font n for every language
FontRef(n) == El("fontRef", [a \in FontRefLangs |-> n], <<>>)

\* a hh:charPr of a template catalog
CharPr(id, height, font) == El("charPr", [id |-> id, height |-> height], <<FontRef(font)>>)

CharProperties(item_cnt, char_prs) == El("charProperties", [itemCnt |-> item_cnt], char_prs)

\* the hh:fontfaces of a template: one face holding one font
FontFaces ==
    El("fontfaces", [itemCnt |-> 1],
       <<El("fontface", [lang |-> "HANGUL"],
            <<El("font", [id |-> 0, face |-> "Batang"], <<>>)>>)>>)

\* a header.xml: hh:head with a hh:refList holding the given nodes
Header(nodes) == El("head", <<>>, <<El("refList", <<>>, nodes)>>)

\* the header.xml of the templates
Headers ==
    { Header(<<FontFaces, CharProperties(2, <<CharPr(0, 1000, 0), CharPr(1, 1200, 0)>>)>>),
      Header(<<FontFaces, CharProperties(1, <<CharPr(0, 1000, 1)>>)>>),
      Header(<<CharProperties(3, <<CharPr(1, 1200, 2), CharPr(0, 1000, 0)>>)>>),
      Header(<<FontFaces>>) }

\* the text runs a document can hold, by character signature
TextRuns ==
    { IrTextRun(FALSE, FALSE, None, None, None),
      IrTextRun(TRUE, FALSE, None, None, None),
      IrTextRun(FALSE, FALSE, Some(1200), None, None),
      IrTextRun(FALSE, TRUE, None, Some("Gulim"), Some("#FF0000")) }

\* the write is still asking for style IDs: the header is not written yet
\* and no call raised
StyleOpen ==
    /\ style_manager # None
    /\ header_out = None
    /\ IF char_pr_ids = <<>> THEN TRUE ELSE char_pr_ids[Len(char_pr_ids)].exc = "none"

\* the state after get_char_pr_id(run) answered r
StyleCalled(run, r) ==
    /\ style_manager' = r.sm
    /\ char_pr_ids' = Append(char_pr_ids,
                             [run |-> run, ret |-> r.ret, exc |-> r.exc,
                              before |-> NodeChildren(style_manager.char_prs_node, "charPr"),
                              after |-> NodeChildren(r.sm.char_prs_node, "charPr")])
    /\ UNCHANGED <<header_xml, header_out>>

\* ParagraphWriter.build asks the StyleManager of writer.py for the style
\* ID of a text run
get_char_pr_id ==
    /\ StyleOpen
    /\ style_manager.module = "writer"
    /\ Len(char_pr_ids) < MaxRuns
    /\ \E run \in TextRuns : StyleCalled(run, GetCharPrId(style_manager, run))
    /\ UNCHANGED <<editorVars, searcherVars, writerVars, readerVars, packageVars>>

\* _build_paragraph asks the StyleManager of hwpx_writer.py for the style
\* ID of a text run
legacy_get_char_pr_id ==
    /\ StyleOpen
    /\ style_manager.module = "hwpx_writer"
    /\ Len(char_pr_ids) < MaxRuns
    /\ \E run \in TextRuns : StyleCalled(run, LegacyGetCharPrId(style_manager, run))
    /\ UNCHANGED <<editorVars, searcherVars, writerVars, readerVars, packageVars>>

\* write calls get_updated_header_xml() once the section is built
get_updated_header_xml ==
    /\ StyleOpen
    /\ header_out' = Some(GetUpdatedHeaderXml(style_manager))
    /\ style_manager' = [style_manager EXCEPT
                            !.fontfaces_node = Counted(@, "fontface"),
                            !.char_prs_node = Counted(@, "charPr")]
    /\ UNCHANGED <<header_xml, char_pr_ids>>
    /\ UNCHANGED <<editorVars, searcherVars, writerVars, readerVars, packageVars>>

\* write constructed a StyleManager, of either module, on the header.xml of
\* the template
StyleInit ==
    /\ header_xml \in Headers
    /\ style_manager \in {StyleManagerInit(header_xml), LegacyStyleManagerInit(header_xml)}
    /\ char_pr_ids = <<>>
    /\ header_out = None
    /\ root = <<>>
    /\ modified = FALSE
    /\ last = NoCall
    /\ nops = 0
    /\ serialized = <<>>
    /\ hwpx = <<>>
    /\ hwpx_package = <<>>
    /\ s_root = <<>>
    /\ s_paragraphs = <<>>
    /\ s_page_breaks = <<>>
    /\ s_pc = "none"
    /\ s_last = NoQuery
    /\ doc = <<>>
    /\ context = NoContext
    /\ eq_counter = 0
    /\ body = <<>>
    /\ w_pc = "none"
    /\ section = <<>>
    /\ bin_data = {}
    /\ r_pc = "none"
    /\ template = <<>>
    /\ binary_items = <<>>
    /\ package = <<>>
    /\ nwrites = 0

StyleNext == get_char_pr_id \/ legacy_get_char_pr_id \/ get_updated_header_xml

SpecStyle == StyleInit /\ [][StyleNext]_vars

----------------------------------------------------------------------------
(* The zip container: the template, the manifest and the written package *)

\* a file name: its stem and its extension
FileName(stem, ext) == [stem |-> stem, ext |-> ext]

\* the name of a zip entry, or a href: "<dir>/<file>"
Path(dir, file) == [dir |-> dir, file |-> file]

\* a zip entry: its name and its content
Entry(filename, data) == [filename |-> filename, data |-> data]

\* content that is not parsed: bytes
Bytes(b) == [bytes |-> b]

Section0Xml == Path("Contents", FileName("section0", "xml"))

HeaderXml == Path("Contents", FileName("header", "xml"))

ContentHpf == Path("Contents", FileName("content", "hpf"))

\* name.startswith("BinData/")
IsBinData(path) == path.dir = "BinData"

\* HwpxBinaryItem
HwpxBinaryItem(id, filename, data) == [id |-> id, filename |-> filename, data |-> data]

\* str.lower() on the extensions that occur
Lower(ext) ==
    CASE ext = "PNG" -> "png"
      [] ext = "JPG" -> "jpg"
      [] OTHER -> ext

\* guess_media_type(filename)
GuessMediaType(filename) ==
    CASE Lower(filename.ext) \in {"jpg", "jpeg"} -> "image/jpeg"
      [] Lower(filename.ext) = "png" -> "image/png"
      [] Lower(filename.ext) = "gif" -> "image/gif"
      [] Lower(filename.ext) = "bmp" -> "image/bmp"
      [] OTHER -> "application/octet-stream"

\* item.get("href") or "" when the item has no href
NoHref == Path("", FileName("", ""))

\* the keys of binary_items, a dict in insertion order keyed by item id
ItemIds(items) == {items[i].id : i \in 1..Len(items)}

\* the children of opf:manifest after the loop that removes the opf:item
\* with a BinData href whose id is missing or not in binary_items
PruneStale(kids, items) ==
    SelectSeq(kids, LAMBDA it :
        ~(/\ it.tag = "item"
          /\ IsBinData(Attr(it, "href", NoHref))
          /\ (Attr(it, "id", "") = "" \/ Attr(it, "id", "") \notin ItemIds(items))))

\* 0-based index of the opf:item existing_by_id holds for the id: the last
\* with that id; -1 when it holds none
IndexById(kids, id) ==
    IF id # "" /\ \E i \in 1..Len(kids) : kids[i].tag = "item" /\ Attr(kids[i], "id", "") = id
    THEN (CHOOSE i \in 1..Len(kids) :
              /\ kids[i].tag = "item" /\ Attr(kids[i], "id", "") = id
              /\ \A j \in (i + 1)..Len(kids) :
                     ~(kids[j].tag = "item" /\ Attr(kids[j], "id", "") = id)) - 1
    ELSE -1

\* the opf:item after href, media-type and isEmbeded are set for the item
ItemFor(el, binary_item) ==
    SetAttr(SetAttr(SetAttr(el, "href", Path("BinData", binary_item.filename)),
                    "media-type", GuessMediaType(binary_item.filename)),
            "isEmbeded", "1")

RECURSIVE AddItems(_, _)
\* the children of opf:manifest after the loop over binary_items.items()
AddItems(kids, items) ==
    IF items = <<>> THEN kids
    ELSE IF IndexById(kids, Head(items).id) < 0
    THEN AddItems(Append(kids, ItemFor(El("item", [id |-> Head(items).id], <<>>),
                                       Head(items))),
                  Tail(items))
    ELSE AddItems([kids EXCEPT ![IndexById(kids, Head(items).id) + 1] =
                                   ItemFor(@, Head(items))],
                  Tail(items))

\* HwpxIrWriter._build_content_hpf(template_content_hpf, binary_items)
BuildContentHpf(content_hpf, items) ==
    IF FindEl(content_hpf, "manifest") = None
    THEN [exc |-> "ValueError", xml |-> content_hpf]
    ELSE [exc |-> "none",
          xml |-> [content_hpf EXCEPT
                      !.kids[IndexOfTag(content_hpf.kids, "manifest") + 1].kids =
                          AddItems(PruneStale(@, items), items)]]

\* src.read(name): the content of the entry with that name, None (KeyError)
\* when the archive has none
ReadEntry(archive, name) ==
    IF \E i \in 1..Len(archive) : archive[i].filename = name
    THEN Some(archive[CHOOSE i \in 1..Len(archive) :
                          /\ archive[i].filename = name
                          /\ \A j \in (i + 1)..Len(archive) : archive[j].filename # name].data)
    ELSE None

\* the StyleManager write constructs: None when the template has no
\* Contents/header.xml
WriteStyleManager(archive) ==
    IF ReadEntry(archive, HeaderXml) = None THEN None
    ELSE StyleManagerInit(ReadEntry(archive, HeaderXml)[1])

\* the variant of the copy loop of write that copies nothing from META-INF
CopyTemplateWithoutMeta(archive, sm) ==
    [i \in 1..Len(SelectSeq(archive, LAMBDA e :
                      /\ e.filename \notin {Section0Xml, ContentHpf}
                      /\ ~IsBinData(e.filename)
                      /\ e.filename.dir # "META-INF")) |->
        LET e == SelectSeq(archive, LAMBDA x :
                      /\ x.filename \notin {Section0Xml, ContentHpf}
                      /\ ~IsBinData(x.filename)
                      /\ x.filename.dir # "META-INF")[i]
        IN IF e.filename = HeaderXml /\ sm # None
           THEN Entry(e.filename, GetUpdatedHeaderXml(sm))
           ELSE e]

\* the loop "for info in src.infolist()" of write: what it writes to the
\* output archive
CopyTemplate(archive, sm) ==
    [i \in 1..Len(SelectSeq(archive, LAMBDA e :
                      /\ e.filename \notin {Section0Xml, ContentHpf}
                      /\ ~IsBinData(e.filename))) |->
        LET e == SelectSeq(archive, LAMBDA x :
                      /\ x.filename \notin {Section0Xml, ContentHpf}
                      /\ ~IsBinData(x.filename))[i]
        IN IF e.filename = HeaderXml /\ sm # None
           THEN Entry(e.filename, GetUpdatedHeaderXml(sm))
           ELSE e]

\* the entries "for item in binary_items.values()" writes
BinDataEntries(items) ==
    [i \in 1..Len(items) |-> Entry(Path("BinData", items[i].filename), Bytes(items[i].data))]

\* the archive write returns when nothing raises: the copied entries, the
\* section, the manifest when the template has a non-empty one, the assets
PackageEntries(archive, sm, section_xml, items) ==
    CopyTemplate(archive, sm)
    \o <<Entry(Section0Xml, section_xml)>>
    \o (IF ReadEntry(archive, ContentHpf) \in {None, Some(Bytes(""))} THEN <<>>
        ELSE <<Entry(ContentHpf, BuildContentHpf(ReadEntry(archive, ContentHpf)[1], items).xml)>>)
    \o BinDataEntries(items)

\* the exception write raises after the section is built, "none" when it
\* returns: _build_content_hpf raises ValueError without opf:manifest
PackageError(archive, items) ==
    IF ReadEntry(archive, ContentHpf) \in {None, Some(Bytes(""))} THEN "none"
    ELSE BuildContentHpf(ReadEntry(archive, ContentHpf)[1], items).exc

----------------------------------------------------------------------------
(* The Writer: IR documents and the write operation *)

\* a hp:p fragment as a reader or another producer stored it
RawP(id, pb, kids) == El("p", [id |-> id, pageBreak |-> pb], kids)

TextRun == El("run", <<>>, <<El("t", <<>>, <<>>)>>)

\* a hp:tbl fragment with one cell holding one paragraph
RawTbl(id, para_id) ==
    El("tbl", [id |-> id, pageBreak |-> "CELL"],
       <<El("tr", <<>>,
            <<El("tc", [rowAddr |-> 0, colAddr |-> 0],
                 <<El("subList", <<>>, <<RawP(para_id, "0", <<TextRun, LineSegArray>>)>>)>>)>>)>>)

\* a hp:pic fragment; ref is its binaryItemIDRef, None when it has none
RawPic(id, ref) ==
    El("pic", [id |-> id],
       IF ref = None THEN <<>> ELSE <<El("img", [binaryItemIDRef |-> ref[1]], <<>>)>>)

ParagraphBlock(para, page_break) == IrBlock("paragraph", Some(para), page_break)

TextParagraph == IrParagraph(<<"text">>, None)

\* an IrTableCell that spans one row and one column and has no size of its
\* own: its address and its blocks
IrTableCell(row, col, blocks) ==
    [row |-> row, col |-> col, blocks |-> blocks, row_span |-> 1, col_span |-> 1,
     width_hwpunit |-> None, height_hwpunit |-> None]

IrParagraphs ==
    { IrParagraph(<<>>, None),
      TextParagraph,
      IrParagraph(<<"text", "inlineEquation">>, None),
      IrParagraph(<<"hyperlink">>, None),
      IrParagraph(<<"text">>, Some(EtreeToString(RawP(0, "0", <<TextRun, LineSegArray>>), ""))),
      IrParagraph(<<>>, Some(EtreeToString(RawP(5, "0", <<>>), "ws"))) }

IrTables ==
    { IrTable(<<IrTableCell(0, 1, <<>>),
                IrTableCell(0, 0, <<ParagraphBlock(TextParagraph, FALSE)>>),
                IrTableCell(1, 0, <<IrBlock("image",
                                            Some([image_id |-> "img1", raw_xml |-> None]),
                                            FALSE)>>)>>, None),
      IrTable(<<IrTableCell(0, 0, <<>>)>>, Some(EtreeToString(RawTbl(6, 7), ""))) }

IrImages ==
    { [image_id |-> "img1", raw_xml |-> None],
      [image_id |-> "img1", raw_xml |-> Some(EtreeToString(RawPic(8, Some("img1")), ""))] }

SectionBlocks ==
    {<<>>} \cup {<<ParagraphBlock(p, FALSE)>> : p \in IrParagraphs}
           \cup {<<IrBlock("table", Some(t), FALSE)>> : t \in IrTables}

IrSections ==
    {IrSection(h, FALSE, bs) : h \in BOOLEAN, bs \in SectionBlocks}
    \cup {IrSection(TRUE, TRUE, <<>>)}

\* the blocks an IrDocument can hold
IrBlocks ==
    {ParagraphBlock(p, pb) : p \in IrParagraphs, pb \in BOOLEAN}
    \cup {IrBlock("table", Some(t), FALSE) : t \in IrTables}
    \cup {IrBlock("image", Some(i), FALSE) : i \in IrImages}
    \cup {IrBlock("equation", Some([script |-> "x"]), FALSE)}
    \cup {IrBlock("list", Some([items |-> <<TextParagraph>>]), FALSE)}
    \cup {IrBlock("toc", Some([entries |-> 1]), FALSE)}
    \cup {IrBlock("section", Some(sec), FALSE) : sec \in IrSections}
    \cup {IrBlock("footnote", None, FALSE)}

IrDocuments == SeqsUpTo(IrBlocks, MaxBlocks)

\* the content of the Contents/section0.xml write produces
SectionXml(els) == El("sec", <<>>, els)

\* the state after write built the section as built: the section is built
\* before anything is written to the output archive, and the archive is
\* returned only if nothing raised; package is <<>> when none is returned
Written(d, items, built) ==
    /\ doc' = d
    /\ binary_items' = items
    /\ nwrites' = nwrites + 1
    /\ style_manager' = WriteStyleManager(template)
    /\ context' = built.ctx
    /\ eq_counter' = built.eqc
    /\ IF HasError(built.els) \/ PackageError(template, items) # "none"
       THEN body' = <<>> /\ package' = <<>> /\ w_pc' = "raised"
       ELSE /\ body' = built.els
            /\ package' = PackageEntries(template, WriteStyleManager(template),
                                         SectionXml(built.els), items)
            /\ w_pc' = "done"

\* the effect of write(d, binary_items) on the writer
WriteDoc(d, items) == Written(d, items, BuildSection0(d, InitWriters(eq_counter)))

\* the manifest of a template: opf:package with opf:metadata and, unless
\* items is None, opf:manifest holding the items
Manifest(items) ==
    El("package", <<>>,
       <<El("metadata", <<>>, <<>>)>>
       \o (IF items = None THEN <<>> ELSE <<El("manifest", <<>>, items[1])>>)
       \o <<El("spine", <<>>, <<>>)>>)

\* an opf:item of a template manifest
ManifestItem(id, href) == El("item", [id |-> id, href |-> href], <<>>)

HeaderItem == ManifestItem("header", HeaderXml)

SectionItem == ManifestItem("section0", Section0Xml)

\* the placeholder image of a template
StaleItem == ManifestItem("image1", Path("BinData", FileName("image1", "png")))

\* an image of a template whose id a supplied item can carry
OldItem == ManifestItem("img1", Path("BinData", FileName("old", "jpg")))

\* an opf:item without id
NoIdItem == El("item", [href |-> Path("BinData", FileName("x", "png"))], <<>>)

\* the Contents/content.hpf a template can hold: None when it has none
ContentHpfs ==
    { None,
      Some(Bytes("")),
      Some(Manifest(None)),
      Some(Manifest(Some(<<HeaderItem, SectionItem>>))),
      Some(Manifest(Some(<<HeaderItem, StaleItem, SectionItem, OldItem>>))),
      Some(Manifest(Some(<<NoIdItem, HeaderItem>>))) }

\* the header.xml of a template with a font face and two character
\* properties
TemplateHeader ==
    Header(<<FontFaces, CharProperties(2, <<CharPr(0, 1000, 0), CharPr(1, 1200, 0)>>)>>)

\* a template archive, in the order of its entries
Template(header, content_hpf, bin_data_entries) ==
    <<Entry(Path("", FileName("mimetype", "")), Bytes("application/hwp+zip")),
      Entry(Path("", FileName("version", "xml")), Bytes("v"))>>
    \o (IF header = None THEN <<>> ELSE <<Entry(HeaderXml, header[1])>>)
    \o <<Entry(Section0Xml, SectionXml(<<>>))>>
    \o bin_data_entries
    \o (IF content_hpf = None THEN <<>> ELSE <<Entry(ContentHpf, content_hpf[1])>>)
    \o <<Entry(Path("META-INF", FileName("container", "xml")), Bytes("c")),
         Entry(Path("Preview", FileName("PrvText", "txt")), Bytes("p"))>>

Templates ==
    { Template(h, c, b) :
        h \in {None, Some(TemplateHeader)},
        c \in ContentHpfs,
        b \in {<<>>, <<Entry(Path("BinData", FileName("image1", "png")), Bytes("old"))>>} }

\* the template the documents of a caller are written on
DefaultTemplate ==
    Template(Some(TemplateHeader), Some(Manifest(Some(<<HeaderItem, SectionItem>>))), <<>>)

\* the binary_items a caller can pass, keyed by item id in insertion order
BinaryItemMaps ==
    { <<>>,
      <<HwpxBinaryItem("img1", FileName("img1", "png"), "d1")>>,
      <<HwpxBinaryItem("img2", FileName("pic", "JPG"), "d2"),
        HwpxBinaryItem("img1", FileName("img1", "png"), "d1")>>,
      <<HwpxBinaryItem("img3", FileName("blob", "bin"), "d3")>>,
      <<HwpxBinaryItem("img1", FileName("img1", "png"), "d1"),
        HwpxBinaryItem("img4", FileName("img1", "png"), "d4")>> }

\* the documents written with binary items
PackageDocuments ==
    { <<>>,
      <<ParagraphBlock(TextParagraph, FALSE)>>,
      <<ParagraphBlock(IrParagraph(<<"text", "inlineEquation">>, None), FALSE),
        ParagraphBlock(IrParagraph(<<"inlineEquation">>, None), TRUE)>>,
      <<IrBlock("image", Some([image_id |-> "img1", raw_xml |-> None]), FALSE),
        IrBlock("table", Some(IrTable(<<IrTableCell(0, 0, <<>>)>>, None)), FALSE)>>,
      <<ParagraphBlock(IrParagraph(<<>>, Some(EtreeToString(RawP(2, "0", <<>>), "text"))),
                       FALSE)>> }

\* HwpxIrWriter.write(doc, binary_items) on an IR document built by a caller
write ==
    /\ w_pc = "idle"
    /\ r_pc = "none"
    /\ \E d \in IrDocuments : WriteDoc(d, <<>>)
    /\ UNCHANGED <<editorVars, searcherVars, readerVars, template,
                   header_xml, char_pr_ids, header_out>>

\* HwpxIrWriter.write(doc, binary_items) with binary items, on a writer
\* that may have written before
write_items ==
    /\ r_pc = "none"
    /\ nwrites < MaxWrites
    /\ \E d \in PackageDocuments, items \in BinaryItemMaps : WriteDoc(d, items)
    /\ UNCHANGED <<editorVars, searcherVars, readerVars, template,
                   header_xml, char_pr_ids, header_out>>

WriterInit ==
    /\ doc = <<>>
    /\ context = NewIdContext
    /\ eq_counter = 0
    /\ body = <<>>
    /\ w_pc = "idle"
    /\ root = <<>>
    /\ modified = FALSE
    /\ last = NoCall
    /\ nops = 0
    /\ serialized = <<>>
    /\ hwpx = <<>>
    /\ hwpx_package = <<>>
    /\ s_root = <<>>
    /\ s_paragraphs = <<>>
    /\ s_page_breaks = <<>>
    /\ s_pc = "none"
    /\ s_last = NoQuery
    /\ section = <<>>
    /\ r_pc = "none"
    /\ bin_data = {}
    /\ template = DefaultTemplate
    /\ binary_items = <<>>
    /\ package = <<>>
    /\ nwrites = 0
    /\ header_xml = <<>>
    /\ style_manager = <<>>
    /\ char_pr_ids = <<>>
    /\ header_out = <<>>

WriterNext == write

SpecWriter == WriterInit /\ [][WriterNext]_vars

\* a writer constructed on one of the templates
PackageInit ==
    /\ template \in Templates
    /\ doc = <<>>
    /\ context = NewIdContext
    /\ eq_counter = 0
    /\ body = <<>>
    /\ w_pc = "idle"
    /\ root = <<>>
    /\ modified = FALSE
    /\ last = NoCall
    /\ nops = 0
    /\ serialized = <<>>
    /\ hwpx = <<>>
    /\ hwpx_package = <<>>
    /\ s_root = <<>>
    /\ s_paragraphs = <<>>
    /\ s_page_breaks = <<>>
    /\ s_pc = "none"
    /\ s_last = NoQuery
    /\ section = <<>>
    /\ r_pc = "none"
    /\ bin_data = {}
    /\ binary_items = <<>>
    /\ package = <<>>
    /\ nwrites = 0
    /\ header_xml = <<>>
    /\ style_manager = <<>>
    /\ char_pr_ids = <<>>
    /\ header_out = <<>>

\* the cells a table with sizes can hold
SizedCells ==
    { [IrTableCell(r, c, <<>>) EXCEPT !.row_span = rs, !.col_span = cs,
                                      !.width_hwpunit = w, !.height_hwpunit = h] :
        r \in {0, 1}, c \in {0, 1, 3}, rs \in {1, 2}, cs \in {1, 2},
        w \in {None, Some(0), Some(7000)}, h \in {None, Some(800)} }

\* the tables with one cell: with and without col_widths and row_heights
SizedTables ==
    { [IrTable(<<cell>>, None) EXCEPT !.col_widths = cw, !.row_heights = rh] :
        cell \in SizedCells,
        cw \in {None, Some(<<>>), Some(<<1000, 2000, 3000>>)},
        rh \in {None, Some(<<500, 0>>)} }

\* HwpxIrWriter.write(doc, binary_items) on a document that holds one table
write_table ==
    /\ w_pc = "idle"
    /\ r_pc = "none"
    /\ \E t \in SizedTables : WriteDoc(<<IrBlock("table", Some(t), FALSE)>>, <<>>)
    /\ UNCHANGED <<editorVars, searcherVars, readerVars, template,
                   header_xml, char_pr_ids, header_out>>

TableInit ==
    /\ doc = <<>>
    /\ context = NewIdContext
    /\ eq_counter = 0
    /\ body = <<>>
    /\ w_pc = "idle"
    /\ root = <<>>
    /\ modified = FALSE
    /\ last = NoCall
    /\ nops = 0
    /\ serialized = <<>>
    /\ hwpx = <<>>
    /\ hwpx_package = <<>>
    /\ s_root = <<>>
    /\ s_paragraphs = <<>>
    /\ s_page_breaks = <<>>
    /\ s_pc = "none"
    /\ s_last = NoQuery
    /\ section = <<>>
    /\ r_pc = "none"
    /\ bin_data = {}
    /\ template = DefaultTemplate
    /\ binary_items = <<>>
    /\ package = <<>>
    /\ nwrites = 0
    /\ header_xml = <<>>
    /\ style_manager = <<>>
    /\ char_pr_ids = <<>>
    /\ header_out = <<>>

TableNext == write_table

SpecTable == TableInit /\ [][TableNext]_vars

\* the section HwpxBuilder makes of a page after the first: its first block
\* is a paragraph block with page_break=True
PageSection == IrSection(FALSE, FALSE, <<ParagraphBlock(TextParagraph, TRUE)>>)

\* blocks of every variant with the page_break flag set, and blocks without
BreakBlocks ==
    {ParagraphBlock(TextParagraph, pb) : pb \in BOOLEAN}
    \cup {IrBlock("table", Some(IrTable(<<IrTableCell(0, 0, <<>>)>>, None)), TRUE)}
    \cup {IrBlock("image", Some([image_id |-> "img1", raw_xml |-> None]), TRUE)}
    \cup {IrBlock("equation", Some([script |-> "x"]), TRUE)}
    \cup {IrBlock("list", Some([items |-> <<TextParagraph>>]), TRUE)}
    \cup {IrBlock("toc", Some([entries |-> 1]), TRUE)}
    \cup {IrBlock("section", Some(PageSection), FALSE)}
    \cup {IrBlock("section",
                  Some(IrSection(FALSE, FALSE,
                                 <<IrBlock("equation", Some([script |-> "x"]), FALSE),
                                   ParagraphBlock(TextParagraph, TRUE)>>)),
                  pb) : pb \in BOOLEAN}

BreakDocuments == SeqsUpTo(BreakBlocks, MaxBlocks)

\* HwpxIrWriter.write(doc, binary_items) on a document whose blocks carry
\* page_break
write_breaks ==
    /\ w_pc = "idle"
    /\ r_pc = "none"
    /\ \E d \in BreakDocuments : WriteDoc(d, <<>>)
    /\ UNCHANGED <<editorVars, searcherVars, readerVars, template,
                   header_xml, char_pr_ids, header_out>>

BreaksInit ==
    /\ doc = <<>>
    /\ context = NewIdContext
    /\ eq_counter = 0
    /\ body = <<>>
    /\ w_pc = "idle"
    /\ root = <<>>
    /\ modified = FALSE
    /\ last = NoCall
    /\ nops = 0
    /\ serialized = <<>>
    /\ hwpx = <<>>
    /\ hwpx_package = <<>>
    /\ s_root = <<>>
    /\ s_paragraphs = <<>>
    /\ s_page_breaks = <<>>
    /\ s_pc = "none"
    /\ s_last = NoQuery
    /\ section = <<>>
    /\ r_pc = "none"
    /\ bin_data = {}
    /\ template = DefaultTemplate
    /\ binary_items = <<>>
    /\ package = <<>>
    /\ nwrites = 0
    /\ header_xml = <<>>
    /\ style_manager = <<>>
    /\ char_pr_ids = <<>>
    /\ header_out = <<>>

BreaksNext == write_breaks

SpecBreaks == BreaksInit /\ [][BreaksNext]_vars

PackageNext == write_items

SpecPackage == PackageInit /\ [][PackageNext]_vars

----------------------------------------------------------------------------
(* The Reader, and a write of what was read *)

RECURSIVE Descendants(_, _)
\* el.xpath(".//tag"): the descendants of the elements els with that tag,
\* in document order
Descendants(els, tag) ==
    IF els = <<>> THEN <<>>
    ELSE (IF Head(els).tag = tag THEN <<Head(els)>> ELSE <<>>)
         \o Descendants(Head(els).kids, tag)
         \o Descendants(Tail(els), tag)

\* el.xpath("./tag"): the children of el with that tag
Children(el, tag) == Keep(el.kids, {i \in 0..(Len(el.kids) - 1) : el.kids[i + 1].tag # tag}, 0)

RECURSIVE ParseRunNodes(_)
\* TextReader.parse_run(run) on the children of the run; every hp:t of the
\* bodies read here holds one line of text
ParseRunNodes(nodes) ==
    IF nodes = <<>> THEN <<>>
    ELSE (CASE Head(nodes).tag = "t" -> <<"text">>
            [] Head(nodes).tag = "lineBreak" -> <<"lineBreak">>
            [] OTHER -> <<>>)
         \o ParseRunNodes(Tail(nodes))

\* the variant of ParagraphReader.parse that keeps no raw fragment
ParagraphParseWithoutRaw(p, tail) ==
    IrParagraph(Concat([i \in 1..Len(Children(p, "run")) |->
                           ParseRunNodes(Children(p, "run")[i].kids)]),
                None)

\* ParagraphReader.parse(p); tail is the text that follows p in its parent
ParagraphParse(p, tail) ==
    IrParagraph(Concat([i \in 1..Len(Children(p, "run")) |->
                           ParseRunNodes(Children(p, "run")[i].kids)]),
                Some(EtreeToString(p, tail)))

RECURSIVE SubListParas(_, _)
\* tc.xpath(".//hp:subList//hp:p"): the hp:p among els and their descendants
\* that have a hp:subList above them (inside), each once, in document order
SubListParas(els, inside) ==
    IF els = <<>> THEN <<>>
    ELSE (IF inside /\ Head(els).tag = "p" THEN <<Head(els)>> ELSE <<>>)
         \o SubListParas(Head(els).kids, inside \/ Head(els).tag = "subList")
         \o SubListParas(Tail(els), inside)

\* TableReader._parse_cell(tc); the cell address and the cell span are kept
\* on the hp:tc
ParseCell(tc) ==
    LET ps == SubListParas(tc.kids, FALSE)
    IN [IrTableCell(Attr(tc, "rowAddr", 0), Attr(tc, "colAddr", 0),
                    [i \in 1..Len(ps) |-> ParagraphBlock(ParagraphParse(ps[i], ""), FALSE)])
        EXCEPT !.row_span = Attr(tc, "rowSpan", 1), !.col_span = Attr(tc, "colSpan", 1)]

\* the hp:tc of the rows of the table itself ("./hp:tr/hp:tc")
OwnCells(tbl) ==
    Concat([i \in 1..Len(Children(tbl, "tr")) |-> Children(Children(tbl, "tr")[i], "tc")])

\* tbl.xpath(".//hp:tc"): every hp:tc below the table
AllCells(tbl) == Descendants(tbl.kids, "tc")

\* the IrTable the reader makes: row_cnt and col_cnt with the fields of
\* IrTable
ReadTable(row_cnt, col_cnt, cells, raw_xml) ==
    [row_cnt |-> row_cnt, col_cnt |-> col_cnt, cells |-> cells, raw_xml |-> raw_xml,
     col_widths |-> None, row_heights |-> None]

\* TableReader.parse(tbl)
TableParse(tbl, tail) ==
    ReadTable(Attr(tbl, "rowCnt", 0), Attr(tbl, "colCnt", 0),
              [i \in 1..Len(AllCells(tbl)) |-> ParseCell(AllCells(tbl)[i])],
              Some(EtreeToString(tbl, tail)))

\* ImageReader.parse(pic): None without hc:img or without binaryItemIDRef
ImageParse(pic, tail) ==
    LET img == Descendants(pic.kids, "img")
    IN IF img = <<>> THEN None
       ELSE IF Attr(img[1], "binaryItemIDRef", "") = "" THEN None
       ELSE Some([image_id |-> img[1].attrs.binaryItemIDRef,
                  raw_xml |-> Some(EtreeToString(pic, tail))])

\* EquationReader.parse(eq): None without hp:script; no raw fragment is kept
EquationParse(eq) ==
    IF Children(eq, "script") = <<>> THEN None ELSE Some([script |-> "x"])

RECURSIVE ParseSection(_)
\* HwpxIrReader._parse_section on the children of the section root
ParseSection(children) ==
    IF children = <<>> THEN <<>>
    ELSE LET elem == Head(children).elem
             tail == Head(children).tail
         IN (CASE elem.tag = "p" -> <<ParagraphBlock(ParagraphParse(elem, tail), FALSE)>>
               [] elem.tag = "tbl" -> <<IrBlock("table", Some(TableParse(elem, tail)), FALSE)>>
               [] elem.tag = "pic" ->
                    IF ImageParse(elem, tail) # None
                    THEN <<IrBlock("image", ImageParse(elem, tail), FALSE)>> ELSE <<>>
               [] elem.tag = "equation" ->
                    IF EquationParse(elem) # None
                    THEN <<IrBlock("equation", EquationParse(elem), FALSE)>> ELSE <<>>
               [] OTHER -> <<>>)
            \o ParseSection(Tail(children))

\* HwpxIrReader.read_ir: the blocks of all sections, in the order of
\* pkg.section_xml_list
ReadIr(sections) == Concat([i \in 1..Len(sections) |-> ParseSection(sections[i])])

\* an element of a source body followed by its tail text
Src(elem, tail) == [elem |-> elem, tail |-> tail]

\* the children a source body can hold
SrcChildren ==
    { Src(RawP(0, "0", <<TextRun, LineSegArray>>), ""),
      Src(RawP(0, "0", <<TextRun, LineSegArray>>), "ws"),
      Src(RawP(3, "1", <<El("run", <<>>, <<RawTbl(4, 5)>>), LineSegArray>>), ""),
      Src(RawP(2, "0", <<>>), "text"),
      Src(RawTbl(6, 7), ""),
      Src(RawPic(8, Some("img1")), "ws"),
      Src(RawPic(9, None), ""),
      Src(El("equation", [id |-> 1], <<El("script", <<>>, <<>>)>>), ""),
      Src(El("ctrl", <<>>, <<>>), "") }

\* the section lists a package can hold: one body, or two short ones
Packages ==
    {<<s>> : s \in SeqsUpTo(SrcChildren, MaxSectionLen)}
    \cup {<<s1, s2>> : s1 \in SeqsUpTo(SrcChildren, 1), s2 \in SeqsUpTo(SrcChildren, 1)}

\* the ids of the BinData entries a package can hold: the keys of the
\* binary_items read_package collects
BinData == {{}, {"img1"}}

\* HwpxIrReader.read_ir(hwpx_path)
read_ir ==
    /\ r_pc = "unread"
    /\ doc' = ReadIr(section)
    /\ r_pc' = "read"
    /\ UNCHANGED <<section, bin_data, hwpx, hwpx_package, context, eq_counter, body, w_pc,
                   editorVars, searcherVars, packageVars, styleVars>>

\* HwpxIrWriter.write(doc, binary_items) on the document read_ir returned
write_back ==
    /\ r_pc = "read"
    /\ w_pc = "idle"
    /\ WriteDoc(doc, <<>>)
    /\ UNCHANGED <<editorVars, searcherVars, readerVars, template,
                   header_xml, char_pr_ids, header_out>>

RoundTripInit ==
    /\ section \in Packages
    /\ r_pc = "unread"
    /\ doc = <<>>
    /\ context = NewIdContext
    /\ eq_counter = 0
    /\ body = <<>>
    /\ w_pc = "idle"
    /\ root = <<>>
    /\ modified = FALSE
    /\ last = NoCall
    /\ nops = 0
    /\ serialized = <<>>
    /\ hwpx = <<>>
    /\ hwpx_package = <<>>
    /\ s_root = <<>>
    /\ s_paragraphs = <<>>
    /\ s_page_breaks = <<>>
    /\ s_pc = "none"
    /\ s_last = NoQuery
    /\ bin_data \in BinData
    /\ template = DefaultTemplate
    /\ binary_items = <<>>
    /\ package = <<>>
    /\ nwrites = 0
    /\ header_xml = <<>>
    /\ style_manager = <<>>
    /\ char_pr_ids = <<>>
    /\ header_out = <<>>

RoundTripNext == read_ir \/ write_back

SpecRoundTrip == RoundTripInit /\ [][RoundTripNext]_vars

----------------------------------------------------------------------------
(* Source tables, read by the TableReader *)

\* a hp:tc with its address and span, holding the paragraphs kids
SrcTc(row, col, row_span, col_span, kids) ==
    El("tc", [rowAddr |-> row, colAddr |-> col, rowSpan |-> row_span, colSpan |-> col_span],
       <<El("subList", <<>>, kids)>>)

\* a hp:tbl of row_cnt x col_cnt holding the rows, each a sequence of hp:tc
SrcTbl(row_cnt, col_cnt, rows) ==
    El("tbl", [id |-> 1, pageBreak |-> "CELL", rowCnt |-> row_cnt, colCnt |-> col_cnt],
       [i \in 1..Len(rows) |-> El("tr", <<>>, rows[i])])

\* the paragraph of a cell: empty, or holding the table nested
CellPara(nested) ==
    RawP(0, "0", IF nested = None THEN <<TextRun>>
                 ELSE <<El("run", <<>>, <<nested[1]>>)>>)

\* the tables of at most 2 x 2 with every way of merging cells; the first
\* cell holds what first is, the others one paragraph
TableLayouts(first) ==
    LET f == <<CellPara(first)>>
        e == <<CellPara(None)>>
    IN { SrcTbl(1, 1, <<<<SrcTc(0, 0, 1, 1, f)>>>>),
         SrcTbl(1, 2, <<<<SrcTc(0, 0, 1, 1, f), SrcTc(0, 1, 1, 1, e)>>>>),
         SrcTbl(2, 2, <<<<SrcTc(0, 0, 1, 2, f)>>,
                        <<SrcTc(1, 0, 1, 1, e), SrcTc(1, 1, 1, 1, e)>>>>),
         SrcTbl(2, 2, <<<<SrcTc(0, 0, 2, 1, f), SrcTc(0, 1, 1, 1, e)>>,
                        <<SrcTc(1, 1, 1, 1, e)>>>>),
         SrcTbl(2, 2, <<<<SrcTc(0, 0, 2, 2, f)>>>>) }

\* source tables: without nested table, and with one in the first cell
SrcTables ==
    TableLayouts(None)
    \cup UNION {TableLayouts(Some(t)) :
                  t \in {SrcTbl(1, 1, <<<<SrcTc(0, 0, 1, 1, <<CellPara(None)>>)>>>>),
                         SrcTbl(2, 1, <<<<SrcTc(0, 0, 1, 1, <<CellPara(None)>>)>>,
                                        <<SrcTc(1, 0, 1, 1, <<CellPara(None)>>)>>>>)}}

\* packages of one section holding tables only
TablePackages ==
    {<<[i \in 1..Len(ts) |-> Src(ts[i], "")]>> : ts \in SeqsUpTo(SrcTables, MaxTables) \ {<<>>}}

TableReaderInit ==
    /\ section \in TablePackages
    /\ r_pc = "unread"
    /\ doc = <<>>
    /\ context = NewIdContext
    /\ eq_counter = 0
    /\ body = <<>>
    /\ w_pc = "none"
    /\ root = <<>>
    /\ modified = FALSE
    /\ last = NoCall
    /\ nops = 0
    /\ serialized = <<>>
    /\ hwpx = <<>>
    /\ hwpx_package = <<>>
    /\ s_root = <<>>
    /\ s_paragraphs = <<>>
    /\ s_page_breaks = <<>>
    /\ s_pc = "none"
    /\ s_last = NoQuery
    /\ bin_data = {}
    /\ template = <<>>
    /\ binary_items = <<>>
    /\ package = <<>>
    /\ nwrites = 0
    /\ header_xml = <<>>
    /\ style_manager = <<>>
    /\ char_pr_ids = <<>>
    /\ header_out = <<>>

TableReaderNext == read_ir

SpecTableReader == TableReaderInit /\ [][TableReaderNext]_vars

----------------------------------------------------------------------------
(* HwpxIrReader.read_package *)

Mimetype == Path("", FileName("mimetype", ""))

\* bytes.decode("utf-8").strip() on the contents that occur
Strip(text) ==
    CASE text = "application/hwp+zip\n" -> "application/hwp+zip"
      [] text = " text/plain" -> "text/plain"
      [] OTHER -> text

\* f"section{section_idx}" for the indices that occur
SectionStems == <<"section0", "section1", "section2">>

\* f"Contents/section{section_idx}.xml"
SectionName(section_idx) == Path("Contents", FileName(SectionStems[section_idx + 1], "xml"))

RECURSIVE ReadSections(_, _)
\* the while loop over section_idx: stops at the first name the archive
\* does not hold (KeyError)
ReadSections(archive, section_idx) ==
    IF section_idx >= Len(SectionStems) THEN <<>>
    ELSE IF ReadEntry(archive, SectionName(section_idx)) = None THEN <<>>
    ELSE <<<<SectionName(section_idx), ReadEntry(archive, SectionName(section_idx))[1]>>>>
         \o ReadSections(archive, section_idx + 1)

\* filename.rsplit(".", 1)[0]
Stem(filename) == filename.stem

\* binary_items[item.id] = item on a dict in insertion order: a key that is
\* there keeps its place and gets the new value
DictSet(items, item) ==
    IF \E i \in 1..Len(items) : items[i].id = item.id
    THEN [i \in 1..Len(items) |-> IF items[i].id = item.id THEN item ELSE items[i]]
    ELSE Append(items, item)

RECURSIVE ReadBinaryItems(_, _, _)
\* the loop over zf.namelist(), from entry i, that fills binary_items
ReadBinaryItems(archive, i, items) ==
    IF i > Len(archive) THEN items
    ELSE IF ~IsBinData(archive[i].filename) THEN ReadBinaryItems(archive, i + 1, items)
    ELSE IF archive[i].filename.file = FileName("", "")
    THEN ReadBinaryItems(archive, i + 1, items)
    ELSE ReadBinaryItems(archive, i + 1,
             DictSet(items,
                     HwpxBinaryItem(Stem(archive[i].filename.file),
                                    archive[i].filename.file,
                                    ReadEntry(archive, archive[i].filename)[1].bytes)))

HwpxPackage(header, section_xml_list, items) ==
    [header_xml |-> header, section_xml_list |-> section_xml_list, binary_items |-> items]

\* what read_package raises on the archive, "none" when it returns
ReadPackageError(archive) ==
    IF ReadEntry(archive, Mimetype) = None THEN "KeyError"
    ELSE IF Strip(ReadEntry(archive, Mimetype)[1].bytes) # "application/hwp+zip"
    THEN "ValueError"
    ELSE IF ReadEntry(archive, HeaderXml) = None THEN "KeyError"
    ELSE "none"

\* what read_package returns on an archive it raises nothing on
ReadPackage(archive) ==
    HwpxPackage(ReadEntry(archive, HeaderXml)[1],
                ReadSections(archive, 0),
                ReadBinaryItems(archive, 1, <<>>))

\* HwpxIrReader.read_package(hwpx_path)
read_package ==
    /\ r_pc = "unread"
    /\ IF ReadPackageError(hwpx) # "none"
       THEN r_pc' = "raised" /\ hwpx_package' = <<>>
       ELSE r_pc' = "read" /\ hwpx_package' = <<ReadPackage(hwpx)>>
    /\ UNCHANGED <<section, bin_data, hwpx, editorVars, searcherVars, writerVars,
                   packageVars, styleVars>>

\* the entries under BinData/ an archive can hold: two with the stem img1,
\* one without extension, and the entry of the directory itself
BinDataFiles ==
    { Entry(Path("BinData", FileName("img1", "png")), Bytes("d1")),
      Entry(Path("BinData", FileName("img1", "jpg")), Bytes("d2")),
      Entry(Path("BinData", FileName("pic", "JPG")), Bytes("d3")),
      Entry(Path("BinData", FileName("blob", "")), Bytes("d4")),
      Entry(Path("BinData", FileName("", "")), Bytes("")) }

\* an archive: the mimetype entry, header.xml unless header is None, the
\* sections of the given indices and the BinData entries
HwpxArchive(mimetype, header, sections, bin_data_entries) ==
    <<Entry(Mimetype, Bytes(mimetype))>>
    \o (IF header = None THEN <<>> ELSE <<Entry(HeaderXml, header[1])>>)
    \o [i \in 1..Len(sections) |-> Entry(SectionName(sections[i]), Bytes("s"))]
    \o bin_data_entries

HwpxArchives ==
    { HwpxArchive(m, h, ss, b) :
        m \in {"application/hwp+zip", "application/hwp+zip\n", " text/plain"},
        h \in {None, Some(Bytes("h"))},
        ss \in {<<0>>, <<0, 1>>, <<0, 2>>},
        b \in {e \in SeqsUpTo(BinDataFiles, MaxBinData) :
                  \A i, j \in 1..Len(e) : e[i] = e[j] => i = j} }

ReadPackageInit ==
    /\ hwpx \in HwpxArchives
    /\ r_pc = "unread"
    /\ doc = <<>>
    /\ context = NoContext
    /\ eq_counter = 0
    /\ body = <<>>
    /\ w_pc = "none"
    /\ root = <<>>
    /\ modified = FALSE
    /\ last = NoCall
    /\ nops = 0
    /\ serialized = <<>>
    /\ section = <<>>
    /\ hwpx_package = <<>>
    /\ s_root = <<>>
    /\ s_paragraphs = <<>>
    /\ s_page_breaks = <<>>
    /\ s_pc = "none"
    /\ s_last = NoQuery
    /\ bin_data = {}
    /\ template = <<>>
    /\ binary_items = <<>>
    /\ package = <<>>
    /\ nwrites = 0
    /\ header_xml = <<>>
    /\ style_manager = <<>>
    /\ char_pr_ids = <<>>
    /\ header_out = <<>>

ReadPackageNext == read_package

SpecReadPackage == ReadPackageInit /\ [][ReadPackageNext]_vars

----------------------------------------------------------------------------
(* Claims about the Editor *)

\* C1: delete_paragraph(index) with index < 0 or index >= the number of
\* top-level paragraphs returns False and leaves the body as it was: the
\* same paragraphs, so the same count and the same serialization.
C1_DeleteOutOfRangeUnchanged ==
    (last.op = "delete_paragraph"
       /\ (last.args[1] < 0 \/ last.args[1] >= Len(last.before)))
    => /\ last.exc = "none"
       /\ last.ret = FALSE
       /\ Len(root) = Len(last.before)
       /\ root = last.before

C1_Witness ==
    /\ last.op = "delete_paragraph"
    /\ Len(last.before) > 0
    /\ last.args[1] < 0
    /\ last.ret = FALSE

\* the operations whose first argument is a paragraph index
IndexOps ==
    { "insert_paragraph_after", "insert_paragraph_before", "delete_paragraph",
      "copy_paragraph", "move_paragraph", "set_page_break", "set_column_break",
      "set_paragraph_style", "set_char_style", "insert_table_after",
      "insert_image_after" }

\* C2: every mutation returns normally, whatever the indices and the
\* non-negative row and column counts (column widths left to their default),
\* and returns False when its index is out of range.
C2_MutationsNeverRaise ==
    (last.op # "load" /\ (last.op = "insert_table_after" => last.args[4] = <<>>))
    => /\ last.exc = "none"
       /\ (last.op \in IndexOps
             /\ (last.args[1] < 0 \/ last.args[1] >= Len(last.before)))
          => last.ret = FALSE

\* C3: replace_text returns the number of occurrences of old it replaced.
C3_ReturnsReplacementCount ==
    last.op = "replace_text" => last.ret = last.actual

RECURSIVE ReplaceFirstK(_, _, _, _)
\* the texts ts with the first k occurrences of old, in document order, replaced
ReplaceFirstK(ts, old, new, k) ==
    IF ts = <<>> THEN <<>>
    ELSE LET m == Min(k, StrCount(Head(ts), old))
         IN <<StrReplace(Head(ts), old, new, m)>>
            \o ReplaceFirstK(Tail(ts), old, new, k - m)

\* the occurrences of old in the texts ts
TotalOccurrences(ts, old) == Sum([i \in 1..Len(ts) |-> StrCount(ts[i], old)])

\* C4: replace_text with a max-count k >= 0 replaces the first
\* min(k, total) occurrences of old in document order and no other.
C4_ReplacesFirstK ==
    (last.op = "replace_text" /\ last.args[3] >= 0)
    => /\ last.actual = Min(last.args[3], TotalOccurrences(AllT(last.before), last.args[1]))
       /\ AllT(root) = ReplaceFirstK(AllT(last.before), last.args[1], last.args[2], last.args[3])

\* C21: once to_bytes has serialized an editor, no later call changes its
\* document: serialization is the last step of the life of the instance,
\* so every step that changes the document is taken before any to_bytes
C21_NoChangeAfterSerialized == [][serialized = <<>>]_root

\* the call l reported success to its caller: it returned True, or a
\* positive count
Reported(l) ==
    /\ l.op # "load"
    /\ l.exc = "none"
    /\ IF l.op \in {"delete_paragraphs_range", "replace_text"} THEN l.ret > 0 ELSE l.ret

\* C25: is_modified() is True if and only if a mutation call since loading
\* reported success: it is False after loading, and a call leaves it True
\* exactly when it was True or the call reported success
C25_ModifiedIffSuccess ==
    [][modified' <=> (modified \/ Reported(last'))]_nops

\* the call l is a move_paragraph of a paragraph to its own index
MoveToSamePlace(l) == l.op = "move_paragraph" /\ l.args[1] = l.args[2]

\* C25 as amended: a move_paragraph to the same index reports success and
\* does not count
C25_ModifiedIffChangingSuccess ==
    [][modified' <=> (modified \/ (Reported(last') /\ ~MoveToSamePlace(last')))]_nops

\* an editor whose earlier call failed moved a paragraph to its own index
\* and reported success: it is not modified
C25_Witness ==
    /\ nops = MaxOps
    /\ ~last.was_modified
    /\ Reported(last)
    /\ MoveToSamePlace(last)
    /\ ~modified

\* C27: a successful move_paragraph(from, to) with from # to on n
\* paragraphs leaves n paragraphs, the moved one at index min(to, n - 1)
\* and the others in their order
C27_MovedToTarget ==
    (last.op = "move_paragraph" /\ last.ret /\ last.args[1] # last.args[2])
    => /\ Len(root) = Len(last.before)
       /\ root[Min(last.args[2], Len(last.before) - 1) + 1] = last.before[last.args[1] + 1]
       /\ RemoveAt(root, Min(last.args[2], Len(last.before) - 1))
             = RemoveAt(last.before, last.args[1])

\* the first of three different paragraphs was moved to index 1, before
\* the last one
C27_Witness ==
    /\ last.op = "move_paragraph"
    /\ last.ret
    /\ last.before = ThreeBody
    /\ last.args = <<0, 1>>
    /\ root = <<ThreeBody[2], ThreeBody[1], ThreeBody[3]>>

\* C29: delete_paragraphs_range(start, end) on n paragraphs removes the
\* paragraphs of index in [max(0, start), min(end, n)), keeps the others in
\* order and returns the number removed, the decrease of the paragraph
\* count; an empty, inverted or negative range removes nothing and returns 0
C29_RangeRemoved ==
    last.op = "delete_paragraphs_range" =>
        LET lo == Max(0, last.args[1])
            hi == Min(last.args[2], Len(last.before))
        IN /\ last.exc = "none"
           /\ last.ret = Len(last.before) - Len(root)
           /\ IF lo < hi
              THEN root = SubSeq(last.before, 1, lo)
                          \o SubSeq(last.before, hi + 1, Len(last.before))
              ELSE root = last.before /\ last.ret = 0
           /\ (last.args[1] >= last.args[2] \/ last.args[2] <= 0)
                 => (root = last.before /\ last.ret = 0)

\* a range that starts before the body and ends inside it removed the
\* first paragraph of two
C29_Witness ==
    /\ last.op = "delete_paragraphs_range"
    /\ last.args[1] < 0
    /\ last.args[2] = 1
    /\ Len(last.before) = 2
    /\ last.ret = 1
    /\ root = Tail(last.before)

----------------------------------------------------------------------------
(* Claims about the Searcher *)

\* the page-break and column-break markers on paragraph p
Markers(p) ==
    (IF p.pageBreak = "1" THEN 1 ELSE 0) + (IF p.columnBreak = "1" THEN 1 ELSE 0)

\* C5: the page estimate of the paragraph at index i is 1 plus the number
\* of page-break and column-break markers on the paragraphs before index i.
C5_EstimateCountsMarkersBefore ==
    (s_last.query = "get_paragraph" /\ s_last.found)
    => s_last.page_estimate
         = 1 + Sum([j \in 1..s_last.index |-> Markers(s_paragraphs[j])])

C5_Witness ==
    /\ s_last.query = "get_paragraph"
    /\ s_last.found
    /\ s_last.page_estimate = 3
    /\ Markers(s_paragraphs[s_last.index + 1]) > 0

C30_LastPageHasParagraphs ==
    (s_pc = "parsed" /\ s_paragraphs # <<>>) =>
        LET n == Len(s_paragraphs)
            count == PageCountEstimate(s_page_breaks)
        IN /\ \A i, j \in 0..(n - 1) :
                 i <= j => EstimatePage(s_page_breaks, i) <= EstimatePage(s_page_breaks, j)
           /\ count = EstimatePage(s_page_breaks, n - 1)
           /\ (s_last.query = "get_paragraphs_by_page" /\ s_last.index = count)
                  => s_last.results # <<>>

\* C26: a searcher and an editor on the same body report the same number
\* of paragraphs, and the paragraph the searcher has at index i is the one
\* an editor call with index i acts on.
C26_SameParagraphIndexing ==
    (s_pc = "parsed" /\ nops = 0) =>
        /\ Len(s_paragraphs) = Len(GetParagraphs(root))
        /\ \A i \in 1..Len(s_paragraphs) : s_paragraphs[i] = GetParagraphs(root)[i]

----------------------------------------------------------------------------
(* Claims about the Writer *)

\* C7: across one write call no two paragraphs of the emitted body carry
\* the same ID, no two tables do, and no two pictures do, whatever the IR
\* document, paragraphs nested in cells, lists and tables of contents included.
C7_EmittedIdsUnique ==
    w_pc = "done" =>
        /\ NoDuplicates(IdsOf({"p"}, body))
        /\ NoDuplicates(IdsOf({"tbl"}, body))
        /\ NoDuplicates(IdsOf({"pic"}, body))

\* C8: within one write call no ID given to a picture or another embedded
\* object (image, block equation, inline equation) equals an ID given to a
\* paragraph or a table.
C8_ObjectIdsApartFromParagraphIds ==
    w_pc = "done" =>
        Range(IdsOf({"pic", "equation"}, body)) \cap Range(IdsOf({"p", "tbl"}, body)) = {}

\* the elements placed in the body for blocks: the children of the section
\* root and the control each control paragraph wraps
Placed(els) ==
    Range(els) \cup
    {els[i].kids[1].kids[1] :
        i \in {j \in 1..Len(els) :
                 /\ Len(els[j].kids) > 0
                 /\ els[j].kids[1].tag = "run"
                 /\ Len(els[j].kids[1].kids) > 0}}

\* the raw fragments carried by the paragraph, table and image blocks in blocks
RawFragments(blocks) ==
    {blocks[i].payload[1].raw_xml[1].elem :
        i \in {j \in 1..Len(blocks) :
                 /\ blocks[j].type \in {"paragraph", "table", "image"}
                 /\ blocks[j].payload # None
                 /\ blocks[j].payload[1].raw_xml # None}}

\* the blocks of the sections of the document d, one sequence per section
SectionsOf(d) ==
    {d[i].payload[1].blocks : i \in {j \in 1..Len(d) : d[j].type = "section"}}

\* C9: whenever an IR paragraph, table or image carries a preserved raw
\* fragment, the element placed in the written body for it is that fragment
\* with no attribute and no child added, removed or changed.
C9_RawFragmentEmittedUnmodified ==
    w_pc = "done" =>
        \A f \in RawFragments(doc) \cup UNION {RawFragments(bs) : bs \in SectionsOf(doc)} :
            f \in Placed(body)

\* the inline variants ParagraphWriter.build has a branch for
WrittenInlines == {"text", "lineBreak", "tab", "inlineEquation"}

\* the paragraph para has an inline no branch of the paragraph writer writes;
\* a paragraph with a raw fragment is emitted as that fragment
HasUnwrittenInline(para) ==
    /\ para.raw_xml = None
    /\ \E k \in 1..Len(para.inlines) : para.inlines[k] \notin WrittenInlines

RECURSIVE HasUnwritten(_, _)
\* among blocks, or nested in them, there is a block whose type is not one
\* of types (the types written at that place), or an inline without a writer
HasUnwritten(blocks, types) ==
    \E i \in 1..Len(blocks) :
        \/ blocks[i].type \notin types
        \/ /\ blocks[i].payload # None
           /\ CASE blocks[i].type = "paragraph" -> HasUnwrittenInline(blocks[i].payload[1])
                [] blocks[i].type = "table" ->
                     /\ blocks[i].payload[1].raw_xml = None
                     /\ \E c \in 1..Len(blocks[i].payload[1].cells) :
                            HasUnwritten(blocks[i].payload[1].cells[c].blocks, {"paragraph"})
                [] blocks[i].type = "list" ->
                     \E k \in 1..Len(blocks[i].payload[1].items) :
                         HasUnwrittenInline(blocks[i].payload[1].items[k])
                [] blocks[i].type = "section" ->
                     HasUnwritten(blocks[i].payload[1].blocks,
                                  {"paragraph", "table", "image", "equation", "list", "toc"})
                [] OTHER -> FALSE

\* C11: write fails whenever the IR holds a block or an inline whose variant
\* has no writer at the place where it stands (top level, section, table
\* cell): no write of such a document completes with that element omitted.
C11_UnwrittenVariantFails ==
    w_pc = "done" =>
        ~HasUnwritten(doc, {"paragraph", "table", "image", "equation", "list", "toc",
                            "section"})

----------------------------------------------------------------------------
(* Claims about reading and writing back *)

\* the body element b holds the fragment f: it is f, or it is a control
\* paragraph whose control is f
Holds(b, f) ==
    \/ b = f
    \/ /\ b.tag = "p"
       /\ Len(b.kids) > 0
       /\ b.kids[1].tag = "run"
       /\ Len(b.kids[1].kids) > 0
       /\ b.kids[1].kids[1] = f

RECURSIVE Reproduces(_, _)
\* the body elements bs hold the fragments fs, in their order
Reproduces(bs, fs) ==
    IF fs = <<>> THEN TRUE
    ELSE IF bs = <<>> THEN FALSE
    ELSE IF Holds(Head(bs), Head(fs)) THEN Reproduces(Tail(bs), Tail(fs))
    ELSE Reproduces(Tail(bs), fs)

RECURSIVE SourceFragments(_)
\* the paragraphs, tables and images of the source bodies that are read
\* with a raw fragment, in their order: every hp:p, every hp:tbl and every
\* hp:pic that refers to a binary item
SourceFragments(children) ==
    IF children = <<>> THEN <<>>
    ELSE LET e == Head(children).elem
         IN (IF \/ e.tag \in {"p", "tbl"}
                \/ /\ e.tag = "pic"
                   /\ \E i \in 1..Len(e.kids) :
                          e.kids[i].tag = "img" /\ "binaryItemIDRef" \in DOMAIN e.kids[i].attrs
             THEN <<e>> ELSE <<>>)
            \o SourceFragments(Tail(children))

\* C10: when a document obtained by reading a package is written back
\* without modification, the written body reproduces, unchanged and in the
\* original order, every paragraph, table and image read with a raw fragment.
C10_RoundTripReproducesFragments ==
    (r_pc = "read" /\ w_pc = "done") =>
        Reproduces(body, SourceFragments(Concat(section)))

\* a package holding a paragraph, a table and an image was read and written back
C10_Witness ==
    /\ r_pc = "read"
    /\ w_pc = "done"
    /\ {"p", "tbl", "pic"} \subseteq
           {SourceFragments(Concat(section))[i].tag :
               i \in 1..Len(SourceFragments(Concat(section)))}

----------------------------------------------------------------------------
(* Claims about the style catalog *)

\* call k of the write is for a run whose signature is not all-default and
\* was not asked for earlier in the write
FirstOfSignature(k) ==
    /\ ~IsDefaultRun(char_pr_ids[k].run)
    /\ \A j \in 1..(k - 1) : Sig(char_pr_ids[j].run) # Sig(char_pr_ids[k].run)

\* the ids of the style entries els
CatalogIds(els) == {Attr(els[i], "id", 0) : i \in 1..Len(els)}

\* C16: a run whose signature is not all-default and is new in the write
\* gets an ID no entry of the catalog had, the catalog gains exactly one
\* entry, which carries that ID, and later runs of the same signature in the
\* write get the same ID.
C16_NewSignatureGetsNewEntry ==
    \A k \in 1..Len(char_pr_ids) :
        FirstOfSignature(k) =>
            /\ char_pr_ids[k].exc = "none"
            /\ char_pr_ids[k].ret \notin CatalogIds(char_pr_ids[k].before)
            /\ Len(char_pr_ids[k].after) = Len(char_pr_ids[k].before) + 1
            /\ SubSeq(char_pr_ids[k].after, 1, Len(char_pr_ids[k].before))
                   = char_pr_ids[k].before
            /\ Attr(char_pr_ids[k].after[Len(char_pr_ids[k].after)], "id", -1)
                   = char_pr_ids[k].ret
            /\ \A j \in (k + 1)..Len(char_pr_ids) :
                   Sig(char_pr_ids[j].run) = Sig(char_pr_ids[k].run)
                       => char_pr_ids[j].ret = char_pr_ids[k].ret

\* every run the write asked a style ID for has the all-default signature
AllDefault == \A k \in 1..Len(char_pr_ids) : IsDefaultRun(char_pr_ids[k].run)

\* the style entries of a header.xml
CatalogOf(header) == NodeChildren(FindEl(RefList(header), "charProperties"), "charPr")

\* C17 as stated: a write whose runs all have the all-default signature
\* gives every run the ID 0, and the catalog it writes has the entries of
\* the template's catalog, with the same attributes.
C17_DefaultRunsLeaveCatalog ==
    (header_out # None /\ AllDefault) =>
        /\ \A k \in 1..Len(char_pr_ids) : char_pr_ids[k].ret = 0
        /\ CatalogOf(header_out[1]) = CatalogOf(header_xml)

\* the hh:fontRef b is the hh:fontRef a with every language set to font 1
IsDefaultFontRef(b, a) ==
    /\ a.tag = "fontRef"
    /\ b.tag = "fontRef"
    /\ b.kids = a.kids
    /\ DOMAIN b.attrs = DOMAIN a.attrs \cup FontRefLangs
    /\ \A n \in DOMAIN b.attrs :
           b.attrs[n] = IF n \in FontRefLangs THEN 1 ELSE a.attrs[n]

\* the entries out are the entries in, but for the font references of
\* entries with the id 0, which may all name font 1
SameButDefaultFont(out, in) ==
    /\ Len(out) = Len(in)
    /\ \A i \in 1..Len(in) :
           /\ out[i].tag = in[i].tag
           /\ out[i].attrs = in[i].attrs
           /\ Len(out[i].kids) = Len(in[i].kids)
           /\ \A j \in 1..Len(in[i].kids) :
                  \/ out[i].kids[j] = in[i].kids[j]
                  \/ /\ Attr(in[i], "id", -1) = 0
                     /\ IsDefaultFontRef(out[i].kids[j], in[i].kids[j])

\* C17 amended: a write whose runs all have the all-default signature gives
\* every run the ID 0 and adds no entry to the catalog and removes none; the
\* catalog it writes has the template's entries with the same attributes,
\* except that the font references of the entry with id 0 are set to font 1.
C17_DefaultRunsKeepEntries ==
    (header_out # None /\ AllDefault) =>
        /\ \A k \in 1..Len(char_pr_ids) :
               char_pr_ids[k].exc = "none" /\ char_pr_ids[k].ret = 0
        /\ SameButDefaultFont(CatalogOf(header_out[1]), CatalogOf(header_xml))

\* a write of two all-default runs by the writer of writer.py wrote a catalog
\* that differs from the template's
C17_Witness ==
    /\ header_out # None
    /\ AllDefault
    /\ Len(char_pr_ids) = 2
    /\ style_manager.module = "writer"
    /\ CatalogOf(header_out[1]) # CatalogOf(header_xml)

\* C18: within one write any two runs with the same (bold, italic, size,
\* font, color) get the same character-style ID, whatever is written
\* between them.
C18_SameSignatureSameId ==
    \A j, k \in 1..Len(char_pr_ids) :
        (/\ Sig(char_pr_ids[j].run) = Sig(char_pr_ids[k].run)
         /\ char_pr_ids[j].exc = "none"
         /\ char_pr_ids[k].exc = "none")
        => char_pr_ids[j].ret = char_pr_ids[k].ret

\* two runs of one signature that is not all-default got a new ID, with a
\* run of another such signature written between them
C18_Witness ==
    /\ Len(char_pr_ids) = 3
    /\ Sig(char_pr_ids[1].run) = Sig(char_pr_ids[3].run)
    /\ Sig(char_pr_ids[2].run) # Sig(char_pr_ids[1].run)
    /\ ~IsDefaultRun(char_pr_ids[1].run)
    /\ ~IsDefaultRun(char_pr_ids[2].run)
    /\ char_pr_ids[3].exc = "none"
    /\ char_pr_ids[3].ret > 0

----------------------------------------------------------------------------
(* Claims about the package *)

\* the opf:item elements of the manifest of the package written, none when
\* the package has no Contents/content.hpf
PackageManifestItems ==
    IF ReadEntry(package, ContentHpf) = None THEN <<>>
    ELSE SelectSeq(FindEl(ReadEntry(package, ContentHpf)[1], "manifest")[1].kids,
                   LAMBDA it : it.tag = "item")

\* the manifest entries of the package that reference a binary asset
AssetItems == SelectSeq(PackageManifestItems, LAMBDA it : IsBinData(Attr(it, "href", NoHref)))

\* the template has no Contents/content.hpf, an empty one, or one without
\* opf:manifest
LacksManifest(archive) ==
    \/ ReadEntry(archive, ContentHpf) \in {None, Some(Bytes(""))}
    \/ FindEl(ReadEntry(archive, ContentHpf)[1], "manifest") = None

\* C12: in the package write produces, the manifest entries that reference
\* binary assets are exactly the supplied binary items: one entry per item,
\* with its id and the href BinData/<filename>, and no other entry
C12_ManifestListsSuppliedItems ==
    package # <<>> =>
        /\ Len(AssetItems) = Len(binary_items)
        /\ \A i \in 1..Len(binary_items) :
               \E j \in 1..Len(AssetItems) :
                   /\ Attr(AssetItems[j], "id", "") = binary_items[i].id
                   /\ Attr(AssetItems[j], "href", NoHref)
                          = Path("BinData", binary_items[i].filename)

\* C13: a write on a template without manifest structure raises and
\* returns no package
C13_MissingManifestIsFatal ==
    (nwrites > 0 /\ LacksManifest(template)) => (w_pc = "raised" /\ package = <<>>)

\* the entry is none of the body section, the style catalog, the manifest
\* and the binary assets
IsOther(e) == e.filename \notin {Section0Xml, HeaderXml, ContentHpf} /\ ~IsBinData(e.filename)

\* C14: every template entry other than the body section, the style
\* catalog, the manifest and the binary assets is in the package written,
\* once, under the same name and with the same bytes
C14_OtherEntriesCopied ==
    package # <<>> =>
        \A i \in 1..Len(template) :
            IsOther(template[i]) =>
                /\ Cardinality({j \in 1..Len(package) :
                                    package[j].filename = template[i].filename}) = 1
                /\ \E j \in 1..Len(package) : package[j] = template[i]

\* a package was written with binary items on a template that holds a
\* manifest, a style catalog and a binary asset of its own
C14_Witness ==
    /\ package # <<>>
    /\ binary_items # <<>>
    /\ ~LacksManifest(template)
    /\ ReadEntry(template, HeaderXml) # None
    /\ \E i \in 1..Len(template) : IsBinData(template[i].filename)
    /\ \E i \in 1..Len(template) : template[i].filename.dir = "META-INF"

\* C19: what a write leaves (the ID counters, the section, the package, or
\* the failure) is what the first write of a new writer on the same
\* template leaves for the same document and binary items
C19_WritesIndependent ==
    nwrites > 0 =>
        /\ context = BuildSection0(doc, 0).ctx
        /\ eq_counter = BuildSection0(doc, 0).eqc
        /\ style_manager = WriteStyleManager(template)
        /\ IF HasError(BuildSection0(doc, 0).els) \/ PackageError(template, binary_items) # "none"
           THEN w_pc = "raised" /\ package = <<>>
           ELSE /\ w_pc = "done"
                /\ body = BuildSection0(doc, 0).els
                /\ package = PackageEntries(template, WriteStyleManager(template),
                                            SectionXml(body), binary_items)

\* a later write of a writer produced a package for a document that
\* numbers inline equations and holds numbered paragraphs
C19_Witness ==
    /\ nwrites = MaxWrites
    /\ w_pc = "done"
    /\ eq_counter > 0
    /\ context.para_id > 1
    /\ style_manager # None

\* C28: no entry name occurs more than once in the archive write returns,
\* whatever the template and the binary items are.
C28_EntryNamesUnique ==
    package # <<>> =>
        \A i, j \in 1..Len(package) :
            package[i].filename = package[j].filename => i = j

\* the elements the writer appends for one block: for a block of the
\* document (top) or for a block inside a section
ElementsOf(block, top) ==
    IF top THEN BuildSection0Block(block, NewIdContext, 0).els
    ELSE ProcessBlock(block, NewIdContext, 0).els

\* el is a paragraph marked with a page break
BreakMarked(el) ==
    /\ el.tag = "p"
    /\ "pageBreak" \in DOMAIN el.attrs
    /\ el.attrs["pageBreak"] = "1"

RECURSIVE BreaksHonoured(_, _, _)
\* every block of blocks with page_break set starts, among the elements els
\* written for blocks, with a paragraph marked with a page break; the blocks
\* of a section follow its anchor paragraph, or start with it when the
\* first of them is a paragraph block
BreaksHonoured(blocks, els, top) ==
    IF blocks = <<>> THEN TRUE
    ELSE LET b == Head(blocks)
             n == Len(ElementsOf(b, top))
             own == SubSeq(els, 1, n)
         IN /\ b.page_break => (n > 0 /\ BreakMarked(own[1]))
            /\ (top /\ b.type = "section" /\ b.payload # None) =>
                   BreaksHonoured(b.payload[1].blocks,
                                  IF FirstIsParagraph(b.payload[1].blocks) THEN own
                                  ELSE Tail(own),
                                  FALSE)
            /\ BreaksHonoured(Tail(blocks), SubSeq(els, n + 1, Len(els)), top)

\* C24: every block whose page_break flag is set yields, at its position in
\* the body written, a paragraph marked with a page break, whatever its
\* variant, also as the first block of a section.
C24_PageBreakOnEveryVariant ==
    w_pc = "done" => BreaksHonoured(doc, body, TRUE)

\* the cells a source table or an IrTable covers with the cell c
Rect(c) ==
    {<<r, k>> : r \in c.row..(c.row + c.row_span - 1), k \in c.col..(c.col + c.col_span - 1)}

\* the table invariant on cells within row_cnt x col_cnt: distinct anchors,
\* span rectangles that do not overlap, every anchor plus span within the
\* table
TableInvariant(row_cnt, col_cnt, cells) ==
    /\ \A i, j \in 1..Len(cells) :
           i # j => /\ <<cells[i].row, cells[i].col>> # <<cells[j].row, cells[j].col>>
                    /\ Rect(cells[i]) \cap Rect(cells[j]) = {}
    /\ \A i \in 1..Len(cells) :
           /\ cells[i].row >= 0 /\ cells[i].col >= 0
           /\ cells[i].row + cells[i].row_span <= row_cnt
           /\ cells[i].col + cells[i].col_span <= col_cnt

\* the own cells of the source table tbl satisfy the table invariant
SourceValid(tbl) ==
    TableInvariant(Attr(tbl, "rowCnt", 0), Attr(tbl, "colCnt", 0),
                   [i \in 1..Len(OwnCells(tbl)) |->
                       [row |-> Attr(OwnCells(tbl)[i], "rowAddr", 0),
                        col |-> Attr(OwnCells(tbl)[i], "colAddr", 0),
                        row_span |-> Attr(OwnCells(tbl)[i], "rowSpan", 1),
                        col_span |-> Attr(OwnCells(tbl)[i], "colSpan", 1)]])

\* C22: the IrTable the reader makes of a source table whose own cells have
\* distinct anchors and spans that do not overlap satisfies the table
\* invariant, also when a cell of the source table holds a nested table.
C22_ReadTableInvariant ==
    r_pc = "read" =>
        \A i \in 1..Len(section[1]) :
            (section[1][i].elem.tag = "tbl" /\ SourceValid(section[1][i].elem)) =>
                /\ doc[i].type = "table"
                /\ TableInvariant(doc[i].payload[1].row_cnt, doc[i].payload[1].col_cnt,
                                  doc[i].payload[1].cells)

\* C23: every entry of the archive under BinData/ is in the binary_items
\* read_package returns, keyed by the stem of its file name, with its own
\* file name and its own bytes.
C23_EveryBinDataEntryRead ==
    hwpx_package # <<>> =>
        \A i \in 1..Len(hwpx) :
            (IsBinData(hwpx[i].filename) /\ hwpx[i].filename.file # FileName("", "")) =>
                \E k \in 1..Len(hwpx_package[1].binary_items) :
                    LET item == hwpx_package[1].binary_items[k]
                    IN /\ item.id = hwpx[i].filename.file.stem
                       /\ item.filename = hwpx[i].filename.file
                       /\ item.data = hwpx[i].data.bytes

----------------------------------------------------------------------------
(* Claims about the sizes of table cells *)

\* the table written and its cell
WrittenTable == doc[1].payload[1]

WrittenCell == WrittenTable.cells[1]

\* the hp:cellSz write emitted for the cell of the table
EmittedCellSz == FindEl(Descendants(body, "tc")[1], "cellSz")[1]

\* the size the cell's own value gives first when it is set and not 0,
\* then the table's sizes summed over the span when they reach the cell
\* and the sum is not 0, then the fallback
OwnFirst(own, sizes, at, span, fallback) ==
    IF own \notin {None, Some(0)} THEN own[1]
    ELSE IF sizes # None /\ sizes # Some(<<>>) /\ at < Len(sizes[1])
            /\ SumSlice(sizes[1], at, at + span) # 0
    THEN SumSlice(sizes[1], at, at + span)
    ELSE fallback

\* C15: the width (height) emitted for a cell is the cell's own width
\* (height) if set, otherwise the sum of the table's column widths (row
\* heights) over the span of the cell, otherwise the fallback
C15_CellSizeOwnFirst ==
    w_pc = "done" =>
        /\ EmittedCellSz.attrs.width
               = OwnFirst(WrittenCell.width_hwpunit, WrittenTable.col_widths,
                          WrittenCell.col, WrittenCell.col_span, DefaultCellWidth)
        /\ EmittedCellSz.attrs.height
               = OwnFirst(WrittenCell.height_hwpunit, WrittenTable.row_heights,
                          WrittenCell.row, WrittenCell.row_span, DefaultCellHeight)

\* the size the table's sizes give first when they reach the cell and
\* their sum over its span is not 0, then the cell's own value when it is
\* set and not 0, then the fallback
TableFirst(own, sizes, at, span, fallback) ==
    IF sizes # None /\ sizes # Some(<<>>) /\ at < Len(sizes[1])
       /\ SumSlice(sizes[1], at, at + span) # 0
    THEN SumSlice(sizes[1], at, at + span)
    ELSE IF own \notin {None, Some(0)} THEN own[1]
    ELSE fallback

\* C15 as amended: the table's column widths (row heights) come before the
\* cell's own width (height)
C15_CellSizeTableFirst ==
    w_pc = "done" =>
        /\ EmittedCellSz.attrs.width
               = TableFirst(WrittenCell.width_hwpunit, WrittenTable.col_widths,
                            WrittenCell.col, WrittenCell.col_span, DefaultCellWidth)
        /\ EmittedCellSz.attrs.height
               = TableFirst(WrittenCell.height_hwpunit, WrittenTable.row_heights,
                            WrittenCell.row, WrittenCell.row_span, DefaultCellHeight)

\* the table with column widths 1000, 2000, 3000 and a cell at column 1
\* that spans two columns and has no width was written with width 5000
C15_Witness ==
    /\ w_pc = "done"
    /\ WrittenTable.col_widths = Some(<<1000, 2000, 3000>>)
    /\ WrittenCell.col = 1
    /\ WrittenCell.col_span = 2
    /\ WrittenCell.width_hwpunit = None
    /\ EmittedCellSz.attrs.width = 5000

----------------------------------------------------------------------------
(* Claims about images without binary item *)

\* the children of all sections of the package read, in order
SourceChildren == Concat(section)

\* the hp:pic has a binaryItemIDRef that names a binary item of the package
Resolvable(pic) ==
    /\ Descendants(pic.kids, "img") # <<>>
    /\ Attr(Descendants(pic.kids, "img")[1], "binaryItemIDRef", "") \in bin_data

\* the child of a section is read into a block: a paragraph, a table, an
\* equation with a script, or an image whose binary item resolves
KeptByRead(child) ==
    \/ child.elem.tag \in {"p", "tbl"}
    \/ child.elem.tag = "equation" /\ Children(child.elem, "script") # <<>>
    \/ child.elem.tag = "pic" /\ Resolvable(child.elem)

\* C20: read_ir drops the images whose binary item reference is absent or
\* names no binary item of the package, and reads every other element
C20_UnresolvableImagesDropped ==
    r_pc # "unread" =>
        /\ Len(doc) = Len(SelectSeq(SourceChildren, KeptByRead))
        /\ \A i \in 1..Len(doc) :
               /\ doc[i].type = "image" => doc[i].payload[1].image_id \in bin_data
               /\ doc[i].type
                      = (CASE SelectSeq(SourceChildren, KeptByRead)[i].elem.tag = "p" -> "paragraph"
                           [] SelectSeq(SourceChildren, KeptByRead)[i].elem.tag = "tbl" -> "table"
                           [] SelectSeq(SourceChildren, KeptByRead)[i].elem.tag = "pic" -> "image"
                           [] OTHER -> "equation")

====
